---- MODULE Spec2Model ----
(***************************************************************************)
(* A model of zepctl: the task waiter (internal/cli/task.go, waitForTask)  *)
(* and the task wait command around it, the search-filter parsers with the *)
(* graph search command that calls them (internal/cli/graph.go), the       *)
(* delete commands with their confirmation prompt, graph clone and thread  *)
(* add-messages, the config cache with the API key lookup                  *)
(* (internal/config/config.go), and the profile commands.                  *)
(*                                                                         *)
(* Time is discrete: durations are whole numbers of clock units, as Go's   *)
(* time.Duration is a whole number of nanoseconds.  Strings that the code  *)
(* takes apart are sequences of one-character strings.                     *)
(***************************************************************************)
EXTENDS Integers, Sequences, FiniteSets, TLC

\* ---------------------------------------------------------------- bounds
MaxTimeout == 3
MaxPoll == 2
MaxTime == MaxTimeout + 1

\* ------------------------------------------------------------- variables
VARIABLES
    timeout,        \* waitForTask argument
    pollInterval,   \* waitForTask argument
    now,            \* clock, in units since waitForTask was entered
    ctxDone,        \* ctx.Done() is closed: the deadline has fired
    tickReady,      \* ticker.C holds a tick (a channel of capacity 1)
    nextTick,       \* the time at which the ticker sends next
    pc,             \* "select", "fetching" or "done"
    result,         \* what waitForTask returned
    errMsg,         \* the message carried by a task failure
    task,           \* the record returned by the last fetch
    hist,           \* what each fetch returned, in order
    fetches,        \* number of c.Task.Get calls started
    inflight,       \* number of c.Task.Get calls started and not returned
    lateFetch,      \* a c.Task.Get call was started after the deadline fired
    fetchTimes,     \* the time at which each c.Task.Get call was started
    fn,             \* the parser function applied last, "none" before any
    arg,            \* its string argument
    opOut,          \* what parseComparisonOperator returned
    pfOut,          \* what parsePropertyFilter returned
    flags,          \* the flags of one graph search command
    cmdPc,          \* where the graph search command is
    cmdErr,         \* the error it returned, "" for nil
    sf,             \* req.SearchFilters
    searchCalls,    \* number of c.Graph.Search calls
    sent,           \* the search filters of the request given to Search
    dateErr,        \* what the last parseDateFilter call returned, "" for nil
    dateSet,        \* the SearchFilters that parseDateFilter is given
    dateLog,        \* the parseDateFilter calls made on dateSet, in order
    twIn,           \* task wait: the task id, --quiet and the API key
    twPc,           \* where the task wait command is
    twErr,          \* the error it returned, <<>> for nil
    twOut,          \* the messages it wrote to stderr, in order
    delIn,          \* a delete command: its kind, argument, flags and stdin
    delPc,          \* where the delete command is
    delErr,         \* the error it returned, <<>> for nil
    delOut,         \* what it wrote to stdout and stderr, in order
    requests,       \* the delete requests it sent to the API, in order
    cfgMem,         \* the *Config the command holds, nil before config.Load
    cfgDisk,        \* the config file
    keychain,       \* the API key the keychain holds for each profile name
    asyncIn,        \* graph clone / thread add-messages: the flags
    asyncPc,        \* where that command is
    asyncErr,       \* the error it returned, <<>> for nil
    asyncOut,       \* what it wrote to stdout and stderr, in order
    asyncResp,      \* the response of its API request
    apiLog,         \* the API requests and waitForTask calls it made, in order
    cachedConfig,   \* package config: the cached *Config, NilConfig for nil
    configOnce,     \* whether configOnce has run its function
    configErr,      \* the cached error, <<>> for nil
    diskFile,       \* ~/.zepctl/config.yaml
    calls,          \* the calls of Load, Reload and Save so far, with results
    viperIn,        \* the settings "api-key" and "profile" as viper resolves them
    newOut,         \* what client.New() returned
    profIn,         \* config add/use/delete-profile: the running command
    profPc,         \* where it is
    profErr,        \* the error it returned, <<>> for nil
    profOut,        \* what it wrote
    profBefore,     \* the saved configuration when it started
    profCount       \* number of profile commands started so far

waitVars == <<timeout, pollInterval, now, ctxDone, tickReady, nextTick, pc,
              result, errMsg, task, hist, fetches, inflight, lateFetch, fetchTimes>>

parseVars == <<fn, arg, opOut, pfOut>>

cmdVars == <<flags, cmdPc, cmdErr, sf, searchCalls, sent>>

dateVars == <<dateErr, dateSet, dateLog>>

twVars == <<twIn, twPc, twErr, twOut>>

delVars == <<delIn, delPc, delErr, delOut, requests, cfgMem, cfgDisk,
             keychain>>

asyncVars == <<asyncIn, asyncPc, asyncErr, asyncOut, asyncResp, apiLog>>

cfgVars ==
    <<cachedConfig, configOnce, configErr, diskFile, calls, viperIn, newOut>>

profVars == <<profIn, profPc, profErr, profOut, profBefore, profCount>>

vars ==
    <<waitVars, parseVars, cmdVars, dateVars, twVars, delVars, asyncVars,
      cfgVars, profVars>>

\* --------------------------------------------------------- task records
Nil == "<nil>"

\* apidata.GetTaskResponse as waitForTask reads it: Status *string and
\* Error *TaskErrorResponse with Message *string.
StatusValues == {Nil, "pending", "processing", "completed", "failed", "cancelled"}
\* A nil Error pointer is the record with isNil set.
NilError == [isNil |-> TRUE, Message |-> Nil]
ErrorValues ==
    {NilError, [isNil |-> FALSE, Message |-> Nil],
     [isNil |-> FALSE, Message |-> "boom"]}
TaskRecords == [Status : StatusValues, Error : ErrorValues]
NoTask == [Status |-> Nil, Error |-> NilError]

\* What one c.Task.Get call can return: (task, nil) or (nil, err).
FetchOutcomes ==
    [err : {FALSE}, task : TaskRecords] \cup {[err |-> TRUE, task |-> NoTask]}

\* status := ""; if task.Status != nil { status = *task.Status }
StatusOf(t) == IF t.Status # Nil THEN t.Status ELSE ""

\* errMsg := "unknown error"; if task.Error != nil && task.Error.Message != nil {...}
ErrMsgOf(t) ==
    IF ~t.Error.isNil /\ t.Error.Message # Nil THEN t.Error.Message
    ELSE "unknown error"

HistEntry(o) == IF o.err THEN "<error>" ELSE StatusOf(o.task)

\* ------------------------------------------------------------ waitForTask
InitWait ==
    /\ timeout \in 1..MaxTimeout
    /\ pollInterval \in 1..MaxPoll
    /\ now = 0
    /\ ctxDone = FALSE
    /\ tickReady = FALSE
    /\ nextTick = pollInterval
    /\ pc = "select"
    /\ result = "none"
    /\ errMsg = Nil
    /\ task = NoTask
    /\ hist = <<>>
    /\ fetches = 0
    /\ inflight = 0
    /\ lateFetch = FALSE
    /\ fetchTimes = <<>>

\* TimePasses with a ticker that re-arms at twice the poll interval.
TimePasses_SlowTicker ==
    /\ now < MaxTime
    /\ now' = now + 1
    /\ ctxDone' = (ctxDone \/ now + 1 >= timeout)
    /\ IF now + 1 = nextTick
       THEN tickReady' = TRUE /\ nextTick' = nextTick + 2 * pollInterval
       ELSE UNCHANGED <<tickReady, nextTick>>
    /\ UNCHANGED <<timeout, pollInterval, pc, result, errMsg, task, hist,
                   fetches, inflight, lateFetch, fetchTimes>>
    /\ UNCHANGED <<parseVars, cmdVars, dateVars, twVars, delVars, asyncVars, cfgVars, profVars>>

\* TimePasses for a context without a deadline (context.Background()).
TimePasses_NoDeadline ==
    /\ now < MaxTime
    /\ now' = now + 1
    /\ IF now + 1 = nextTick
       THEN tickReady' = TRUE /\ nextTick' = nextTick + pollInterval
       ELSE UNCHANGED <<tickReady, nextTick>>
    /\ UNCHANGED <<timeout, pollInterval, ctxDone, pc, result, errMsg, task,
                   hist, fetches, inflight, lateFetch, fetchTimes>>
    /\ UNCHANGED <<parseVars, cmdVars, dateVars, twVars, delVars, asyncVars, cfgVars, profVars>>

\* One clock unit passes.  The context's timer closes ctx.Done() when the
\* deadline is reached; the ticker sends on its channel of capacity 1 and
\* drops the tick if the channel is still full.
TimePasses ==
    /\ now < MaxTime
    /\ now' = now + 1
    /\ ctxDone' = (ctxDone \/ now + 1 >= timeout)
    /\ IF now + 1 = nextTick
       THEN tickReady' = TRUE /\ nextTick' = nextTick + pollInterval
       ELSE UNCHANGED <<tickReady, nextTick>>
    /\ UNCHANGED <<timeout, pollInterval, pc, result, errMsg, task, hist,
                   fetches, inflight, lateFetch, fetchTimes>>
    /\ UNCHANGED <<parseVars, cmdVars, dateVars, twVars, delVars, asyncVars, cfgVars, profVars>>

\* The clock while waitForTask is running: time passes at any point, also
\* during a fetch and while the goroutine is ready to run.
Advance ==
    /\ pc # "done"
    /\ TimePasses

\* SelectDone returning nil when the deadline fires.
SelectDone_ReturnsNil ==
    /\ pc = "select"
    /\ ctxDone
    /\ pc' = "done"
    /\ result' = "success"
    /\ UNCHANGED <<timeout, pollInterval, now, ctxDone, tickReady, nextTick,
                   errMsg, task, hist, fetches, inflight, lateFetch, fetchTimes>>
    /\ UNCHANGED <<parseVars, cmdVars, dateVars, twVars, delVars, asyncVars, cfgVars, profVars>>

\* select: case <-ctx.Done(): return fmt.Errorf("timeout waiting for task ...")
SelectDone ==
    /\ pc = "select"
    /\ ctxDone
    /\ pc' = "done"
    /\ result' = "timeout"
    /\ UNCHANGED <<timeout, pollInterval, now, ctxDone, tickReady, nextTick,
                   errMsg, task, hist, fetches, inflight, lateFetch, fetchTimes>>
    /\ UNCHANGED <<parseVars, cmdVars, dateVars, twVars, delVars, asyncVars, cfgVars, profVars>>

\* SelectTick starting the fetch without waiting for it (go c.Task.Get(...)).
SelectTick_Async ==
    /\ pc = "select"
    /\ tickReady
    /\ tickReady' = FALSE
    /\ pc' = "select"
    /\ fetches' = fetches + 1
    /\ inflight' = inflight + 1
    /\ lateFetch' = (lateFetch \/ ctxDone)
    /\ fetchTimes' = Append(fetchTimes, now)
    /\ UNCHANGED <<timeout, pollInterval, now, ctxDone, nextTick, result,
                   errMsg, task, hist>>
    /\ UNCHANGED <<parseVars, cmdVars, dateVars, twVars, delVars, asyncVars, cfgVars, profVars>>

\* select: case <-ticker.C: the tick is received and c.Task.Get is called.
\* When ctx.Done() is ready as well, Go's select picks either case.
SelectTick ==
    /\ pc = "select"
    /\ tickReady
    /\ tickReady' = FALSE
    /\ pc' = "fetching"
    /\ fetches' = fetches + 1
    /\ inflight' = inflight + 1
    /\ lateFetch' = (lateFetch \/ ctxDone)
    /\ fetchTimes' = Append(fetchTimes, now)
    /\ UNCHANGED <<timeout, pollInterval, now, ctxDone, nextTick, result,
                   errMsg, task, hist>>
    /\ UNCHANGED <<parseVars, cmdVars, dateVars, twVars, delVars, asyncVars, cfgVars, profVars>>

\* LoopBody with a default case that fails the wait on an unknown status.
LoopBody_StrictStatus(o) ==
    IF o.err
    THEN [done |-> TRUE, result |-> "transport", errMsg |-> Nil]
    ELSE IF StatusOf(o.task) = "completed"
    THEN [done |-> TRUE, result |-> "success", errMsg |-> Nil]
    ELSE IF StatusOf(o.task) = "failed"
    THEN [done |-> TRUE, result |-> "taskfailed", errMsg |-> ErrMsgOf(o.task)]
    ELSE IF StatusOf(o.task) \in {"pending", "processing"}
    THEN [done |-> FALSE, result |-> "none", errMsg |-> Nil]
    ELSE [done |-> TRUE, result |-> "taskfailed", errMsg |-> "unknown error"]

\* LoopBody that keeps polling after a fetch error.
LoopBody_RetryOnError(o) ==
    IF o.err
    THEN [done |-> FALSE, result |-> "none", errMsg |-> Nil]
    ELSE IF StatusOf(o.task) = "completed"
    THEN [done |-> TRUE, result |-> "success", errMsg |-> Nil]
    ELSE IF StatusOf(o.task) = "failed"
    THEN [done |-> TRUE, result |-> "taskfailed", errMsg |-> ErrMsgOf(o.task)]
    ELSE [done |-> FALSE, result |-> "none", errMsg |-> Nil]

\* The loop body after c.Task.Get returned o: the error check and the switch
\* on status.  done says whether waitForTask returns.
LoopBody(o) ==
    IF o.err
    THEN [done |-> TRUE, result |-> "transport", errMsg |-> Nil]
    ELSE IF StatusOf(o.task) = "completed"
    THEN [done |-> TRUE, result |-> "success", errMsg |-> Nil]
    ELSE IF StatusOf(o.task) = "failed"
    THEN [done |-> TRUE, result |-> "taskfailed", errMsg |-> ErrMsgOf(o.task)]
    ELSE [done |-> FALSE, result |-> "none", errMsg |-> Nil]

\* c.Task.Get returns and the rest of the loop body runs.
FetchReturn ==
    /\ pc = "fetching"
    /\ \E o \in FetchOutcomes :
        /\ task' = o.task
        /\ hist' = Append(hist, HistEntry(o))
        /\ inflight' = inflight - 1
        /\ pc' = IF LoopBody(o).done THEN "done" ELSE "select"
        /\ result' = LoopBody(o).result
        /\ errMsg' = LoopBody(o).errMsg
    /\ UNCHANGED <<timeout, pollInterval, now, ctxDone, tickReady, nextTick,
                   fetches, lateFetch, fetchTimes>>
    /\ UNCHANGED <<parseVars, cmdVars, dateVars, twVars, delVars, asyncVars, cfgVars, profVars>>

\* The same program with instantaneous fetches and a goroutine that runs as
\* soon as it can: time passes only while waitForTask is blocked in select
\* with neither channel ready.
AdvanceInstant ==
    /\ pc = "select"
    /\ ~ctxDone
    /\ ~tickReady
    /\ TimePasses

\* ================================================================ strings
\* A string is the sequence of its characters.
Colon == <<":">>
IsNullMarker == <<":", "I", "S", " ", "N", "U", "L", "L">>
IsNotNullMarker == <<":", "I", "S", " ", "N", "O", "T", " ", "N", "U", "L", "L">>

HasSubAt(s, sub, i) ==
    /\ i + Len(sub) - 1 <= Len(s)
    /\ SubSeq(s, i, i + Len(sub) - 1) = sub

\* strings.Index, counted from 1; 0 when sub does not occur in s.
Index(s, sub) ==
    IF \E i \in 1..Len(s) : HasSubAt(s, sub, i)
    THEN CHOOSE i \in 1..Len(s) :
            HasSubAt(s, sub, i) /\ \A j \in 1..(i - 1) : ~HasSubAt(s, sub, j)
    ELSE 0

\* strings.Contains
Contains(s, sub) == Index(s, sub) # 0

\* strings.Split: a part for every separator.
RECURSIVE SplitN_Unlimited(_, _, _)
SplitN_Unlimited(s, sep, n) ==
    IF Index(s, sep) = 0
    THEN <<s>>
    ELSE <<SubSeq(s, 1, Index(s, sep) - 1)>>
         \o SplitN_Unlimited(SubSeq(s, Index(s, sep) + Len(sep), Len(s)),
                             sep, n)

\* strings.SplitN for n > 0 and a non-empty separator: at most n parts, the
\* last part is the unsplit remainder.
RECURSIVE SplitN(_, _, _)
SplitN(s, sep, n) ==
    IF n <= 1 \/ Index(s, sep) = 0
    THEN <<s>>
    ELSE <<SubSeq(s, 1, Index(s, sep) - 1)>>
         \o SplitN(SubSeq(s, Index(s, sep) + Len(sep), Len(s)), sep, n - 1)

\* ------------------------------------------------- strconv, as json.Number
Digits == {"0", "1", "2", "3", "4", "5", "6", "7", "8", "9"}
DigitValue ==
    "0" :> 0 @@ "1" :> 1 @@ "2" :> 2 @@ "3" :> 3 @@ "4" :> 4 @@
    "5" :> 5 @@ "6" :> 6 @@ "7" :> 7 @@ "8" :> 8 @@ "9" :> 9

IsDigits(s) == Len(s) > 0 /\ \A i \in 1..Len(s) : s[i] \in Digits

RECURSIVE StripZeros(_)
StripZeros(s) ==
    IF s # <<>> /\ Head(s) = "0" THEN StripZeros(Tail(s)) ELSE s

\* a < b for digit strings of the same length
DigitsLess(a, b) ==
    \E i \in 1..Len(a) :
        /\ DigitValue[a[i]] < DigitValue[b[i]]
        /\ \A j \in 1..(i - 1) : a[j] = b[j]

\* 1<<63 - 1 and 1<<63
MaxInt64 == <<"9", "2", "2", "3", "3", "7", "2", "0", "3", "6", "8", "5",
              "4", "7", "7", "5", "8", "0", "7">>
MinInt64Magnitude == <<"9", "2", "2", "3", "3", "7", "2", "0", "3", "6", "8",
                       "5", "4", "7", "7", "5", "8", "0", "8">>

\* strconv.ParseInt(s, 10, 64): an optional sign and decimal digits, within
\* the int64 range.  text is the value in canonical decimal form.
ParseInt(s) ==
    LET signed == s # <<>> /\ s[1] \in {"+", "-"}
        neg == s # <<>> /\ s[1] = "-"
        body == IF signed THEN Tail(s) ELSE s
        mag == StripZeros(body)
        limit == IF neg THEN MinInt64Magnitude ELSE MaxInt64
    IN  IF ~IsDigits(body)
        THEN [ok |-> FALSE, text |-> <<>>]
        ELSE IF Len(mag) > 19 \/ (Len(mag) = 19 /\ DigitsLess(limit, mag))
        THEN [ok |-> FALSE, text |-> <<>>]
        ELSE IF mag = <<>>
        THEN [ok |-> TRUE, text |-> <<"0">>]
        ELSE [ok |-> TRUE, text |-> (IF neg THEN <<"-">> ELSE <<>>) \o mag]

LowerCase ==
    "I" :> "i" @@ "N" :> "n" @@ "F" :> "f" @@ "T" :> "t" @@ "Y" :> "y" @@
    "A" :> "a" @@ "E" :> "e"
Lower(s) ==
    [i \in 1..Len(s) |->
        IF s[i] \in DOMAIN LowerCase THEN LowerCase[s[i]] ELSE s[i]]

\* strconv's special(): [+-]inf, [+-]infinity and nan, in any letter case.
IsSpecialFloat(s) ==
    LET signed == s # <<>> /\ s[1] \in {"+", "-"}
        body == Lower(IF signed THEN Tail(s) ELSE s)
    IN  \/ body \in {<<"i", "n", "f">>,
                     <<"i", "n", "f", "i", "n", "i", "t", "y">>}
        \/ Lower(s) = <<"n", "a", "n">>

\* The decimal exponent after e/E: an optional sign and digits; the value is
\* capped the way readFloat caps it (e stops growing at 10000).
RECURSIVE ExpValue(_, _)
ExpValue(ds, acc) ==
    IF ds = <<>> THEN acc
    ELSE ExpValue(Tail(ds),
                  IF acc < 10000 THEN acc * 10 + DigitValue[Head(ds)] ELSE acc)

\* The first 17 digits of 2^1024 - 2^970, the least decimal that rounds to
\* +Inf; it has 309 integer digits.
OverflowDigits == <<"1", "7", "9", "7", "6", "9", "3", "1", "3", "4", "8",
                    "6", "2", "3", "1", "5", "8">>

Pad17(ds) ==
    [i \in 1..17 |-> IF i <= Len(ds) THEN ds[i] ELSE "0"]

\* strconv.ParseFloat(s, 64) on the decimal and special forms: an optional
\* sign, digits with at most one '.', an optional exponent; fails on a
\* syntax error and on overflow (underflow gives 0 without an error).
\* Tokens with '_' or a 0x prefix are not in the model's inputs.
ParseFloatOK(s) ==
    LET signed == s # <<>> /\ s[1] \in {"+", "-"}
        body == IF signed THEN Tail(s) ELSE s
        epos == IF \E i \in 1..Len(body) : body[i] \in {"e", "E"}
                THEN CHOOSE i \in 1..Len(body) :
                        /\ body[i] \in {"e", "E"}
                        /\ \A j \in 1..(i - 1) : body[j] \notin {"e", "E"}
                ELSE 0
        mant == IF epos = 0 THEN body ELSE SubSeq(body, 1, epos - 1)
        expo == IF epos = 0 THEN <<>> ELSE SubSeq(body, epos + 1, Len(body))
        esigned == expo # <<>> /\ expo[1] \in {"+", "-"}
        edigits == IF esigned THEN Tail(expo) ELSE expo
        dot == Index(mant, <<".">>)
        intPart == IF dot = 0 THEN mant ELSE SubSeq(mant, 1, dot - 1)
        fracPart == IF dot = 0 THEN <<>> ELSE SubSeq(mant, dot + 1, Len(mant))
        all == intPart \o fracPart
        syntaxOK ==
            /\ IsDigits(all)
            /\ epos # 0 => IsDigits(edigits)
        sig == StripZeros(all)
        e == IF epos = 0 THEN 0
             ELSE IF expo[1] = "-" THEN 0 - ExpValue(edigits, 0)
             ELSE ExpValue(edigits, 0)
        \* the value is 0.sig * 10^dp
        dp == Len(intPart) - (Len(all) - Len(sig)) + e
        overflow ==
            /\ sig # <<>>
            /\ \/ dp > 309
               \/ dp = 309 /\ DigitsLess(OverflowDigits, Pad17(sig))
    IN  \/ IsSpecialFloat(s)
        \/ syntaxOK /\ ~overflow

\* ======================================================== filter parsers
\* zep.ComparisonOperator values, by the name of their Go constant.
Operators ==
    {"Equals", "NotEquals", "GreaterThan", "LessThan", "GreaterThanEqual",
     "LessThanEqual", "IsNull", "IsNotNull"}

\* parseComparisonOperator without the aliases == and !=.
parseComparisonOperator_NoAliases(op) ==
    IF op = <<"=">>
    THEN [err |-> "", op |-> "Equals"]
    ELSE IF op = <<"<", ">">>
    THEN [err |-> "", op |-> "NotEquals"]
    ELSE IF op = <<">">>
    THEN [err |-> "", op |-> "GreaterThan"]
    ELSE IF op = <<"<">>
    THEN [err |-> "", op |-> "LessThan"]
    ELSE IF op = <<">", "=">>
    THEN [err |-> "", op |-> "GreaterThanEqual"]
    ELSE IF op = <<"<", "=">>
    THEN [err |-> "", op |-> "LessThanEqual"]
    ELSE IF op = <<"I", "S", " ", "N", "U", "L", "L">>
    THEN [err |-> "", op |-> "IsNull"]
    ELSE IF op = <<"I", "S", " ", "N", "O", "T", " ", "N", "U", "L", "L">>
    THEN [err |-> "", op |-> "IsNotNull"]
    ELSE [err |-> "unknown operator", op |-> ""]

\* parseComparisonOperator: err is "" for a nil error.
parseComparisonOperator(op) ==
    IF op \in {<<"=">>, <<"=", "=">>}
    THEN [err |-> "", op |-> "Equals"]
    ELSE IF op \in {<<"<", ">">>, <<"!", "=">>}
    THEN [err |-> "", op |-> "NotEquals"]
    ELSE IF op = <<">">>
    THEN [err |-> "", op |-> "GreaterThan"]
    ELSE IF op = <<"<">>
    THEN [err |-> "", op |-> "LessThan"]
    ELSE IF op = <<">", "=">>
    THEN [err |-> "", op |-> "GreaterThanEqual"]
    ELSE IF op = <<"<", "=">>
    THEN [err |-> "", op |-> "LessThanEqual"]
    ELSE IF op = <<"I", "S", " ", "N", "U", "L", "L">>
    THEN [err |-> "", op |-> "IsNull"]
    ELSE IF op = <<"I", "S", " ", "N", "O", "T", " ", "N", "U", "L", "L">>
    THEN [err |-> "", op |-> "IsNotNull"]
    ELSE [err |-> "unknown operator", op |-> ""]

\* The Go value an interface{} holds: its dynamic type and, as text, its
\* value.  NilValue is the nil interface, which is also what an unset
\* PropertyValue field holds.
NilValue == [type |-> "nil", text |-> <<>>]

\* InferValue trying the float parse before the integer parse.
InferValue_FloatFirst(valueStr) ==
    IF valueStr = <<"t", "r", "u", "e">>
    THEN [type |-> "bool", text |-> <<"t", "r", "u", "e">>]
    ELSE IF valueStr = <<"f", "a", "l", "s", "e">>
    THEN [type |-> "bool", text |-> <<"f", "a", "l", "s", "e">>]
    ELSE IF valueStr = <<"n", "u", "l", "l">> \/ valueStr = <<>>
    THEN NilValue
    ELSE IF ParseFloatOK(valueStr)
    THEN [type |-> "float64", text |-> valueStr]
    ELSE IF ParseInt(valueStr).ok
    THEN [type |-> "int64", text |-> ParseInt(valueStr).text]
    ELSE [type |-> "string", text |-> valueStr]

\* parsePropertyFilter's detection of the value's type.
InferValue(valueStr) ==
    IF valueStr = <<"t", "r", "u", "e">>
    THEN [type |-> "bool", text |-> <<"t", "r", "u", "e">>]
    ELSE IF valueStr = <<"f", "a", "l", "s", "e">>
    THEN [type |-> "bool", text |-> <<"f", "a", "l", "s", "e">>]
    ELSE IF valueStr = <<"n", "u", "l", "l">> \/ valueStr = <<>>
    THEN NilValue
    ELSE IF ParseInt(valueStr).ok
    THEN [type |-> "int64", text |-> ParseInt(valueStr).text]
    ELSE IF ParseFloatOK(valueStr)
    THEN [type |-> "float64", text |-> valueStr]
    ELSE [type |-> "string", text |-> valueStr]

NoFilter == [PropertyName |-> <<>>, ComparisonOperator |-> "", PropertyValue |-> NilValue]

\* parsePropertyFilter looking for ":IS NULL" before ":IS NOT NULL".
parsePropertyFilter_NullFirst(filter) ==
    IF Contains(filter, IsNullMarker)
    THEN LET parts == SplitN(filter, IsNullMarker, 2)
         IN  IF Len(parts) < 1 \/ parts[1] = <<>>
             THEN [err |-> "invalid property filter format", pf |-> NoFilter]
             ELSE [err |-> "",
                   pf |-> [PropertyName |-> parts[1],
                           ComparisonOperator |-> "IsNull",
                           PropertyValue |-> NilValue]]
    ELSE IF Contains(filter, IsNotNullMarker)
    THEN LET parts == SplitN(filter, IsNotNullMarker, 2)
         IN  IF Len(parts) < 1 \/ parts[1] = <<>>
             THEN [err |-> "invalid property filter format", pf |-> NoFilter]
             ELSE [err |-> "",
                   pf |-> [PropertyName |-> parts[1],
                           ComparisonOperator |-> "IsNotNull",
                           PropertyValue |-> NilValue]]
    ELSE LET parts == SplitN(filter, Colon, 3)
         IN  IF Len(parts) # 3
             THEN [err |-> "invalid property filter format", pf |-> NoFilter]
             ELSE IF parseComparisonOperator(parts[2]).err # ""
             THEN [err |-> "invalid operator in property filter",
                   pf |-> NoFilter]
             ELSE [err |-> "",
                   pf |-> [PropertyName |-> parts[1],
                           ComparisonOperator |->
                               parseComparisonOperator(parts[2]).op,
                           PropertyValue |-> InferValue(parts[3])]]

\* parsePropertyFilter: err is "" for a nil error, and pf is the filter.
parsePropertyFilter(filter) ==
    IF Contains(filter, IsNotNullMarker)
    THEN LET parts == SplitN(filter, IsNotNullMarker, 2)
         IN  IF Len(parts) < 1 \/ parts[1] = <<>>
             THEN [err |-> "invalid property filter format", pf |-> NoFilter]
             ELSE [err |-> "",
                   pf |-> [PropertyName |-> parts[1],
                           ComparisonOperator |-> "IsNotNull",
                           PropertyValue |-> NilValue]]
    ELSE IF Contains(filter, IsNullMarker)
    THEN LET parts == SplitN(filter, IsNullMarker, 2)
         IN  IF Len(parts) < 1 \/ parts[1] = <<>>
             THEN [err |-> "invalid property filter format", pf |-> NoFilter]
             ELSE [err |-> "",
                   pf |-> [PropertyName |-> parts[1],
                           ComparisonOperator |-> "IsNull",
                           PropertyValue |-> NilValue]]
    ELSE LET parts == SplitN(filter, Colon, 3)
         IN  IF Len(parts) # 3
             THEN [err |-> "invalid property filter format", pf |-> NoFilter]
             ELSE IF parseComparisonOperator(parts[2]).err # ""
             THEN [err |-> "invalid operator in property filter",
                   pf |-> NoFilter]
             ELSE [err |-> "",
                   pf |-> [PropertyName |-> parts[1],
                           ComparisonOperator |->
                               parseComparisonOperator(parts[2]).op,
                           PropertyValue |-> InferValue(parts[3])]]

\* A *string: nil, or a pointer to text.
NilString == [isNil |-> TRUE, text |-> <<>>]
StringPtr(str) == [isNil |-> FALSE, text |-> str]

\* zep.SearchFilters as the command fills it.  isNil says that
\* req.SearchFilters is the nil pointer; a nil slice is the empty sequence.
NilFilters ==
    [isNil |-> TRUE,
     ExcludeNodeLabels |-> <<>>, ExcludeEdgeTypes |-> <<>>,
     NodeLabels |-> <<>>, EdgeTypes |-> <<>>,
     PropertyFilters |-> <<>>,
     CreatedAt |-> <<>>, ValidAt |-> <<>>, InvalidAt |-> <<>>,
     ExpiredAt |-> <<>>]
EmptyFilters == [NilFilters EXCEPT !.isNil = FALSE]

\* The loop body of parsePropertyFilters: head is what parsePropertyFilter
\* returned for the first filter, rest what the loop returns for the others.
AppendParsed(head, rest) ==
    IF head.err # ""
    THEN [err |-> head.err, result |-> <<>>]
    ELSE IF rest.err # ""
    THEN [err |-> rest.err, result |-> <<>>]
    ELSE [err |-> "", result |-> <<head.pf>> \o rest.result]

\* parsePropertyFilters: the filters in order, or nil and the error of the
\* first filter that fails.
RECURSIVE parsePropertyFilters(_)
parsePropertyFilters(filters) ==
    IF filters = <<>>
    THEN [err |-> "", result |-> <<>>]
    ELSE AppendParsed(parsePropertyFilter(Head(filters)),
                      parsePropertyFilters(Tail(filters)))

\* addDateFilter putting a filter into the field's last group when it has one.
addDateFilter_SameGroup(field, op, date, s) ==
    LET df == [ComparisonOperator |-> op, Date |-> date]
        add(groups) == IF groups = <<>> THEN <<<<df>>>>
                       ELSE [groups EXCEPT ![Len(groups)] = Append(@, df)]
    IN  IF field = <<"c", "r", "e", "a", "t", "e", "d", "_", "a", "t">>
        THEN [err |-> "", sf |-> [s EXCEPT !.CreatedAt = add(@)]]
        ELSE IF field = <<"v", "a", "l", "i", "d", "_", "a", "t">>
        THEN [err |-> "", sf |-> [s EXCEPT !.ValidAt = add(@)]]
        ELSE IF field = <<"i", "n", "v", "a", "l", "i", "d", "_", "a", "t">>
        THEN [err |-> "", sf |-> [s EXCEPT !.InvalidAt = add(@)]]
        ELSE IF field = <<"e", "x", "p", "i", "r", "e", "d", "_", "a", "t">>
        THEN [err |-> "", sf |-> [s EXCEPT !.ExpiredAt = add(@)]]
        ELSE [err |-> "unknown date field", sf |-> s]

\* addDateFilter without the default case of its switch.
addDateFilter_NoDefault(field, op, date, s) ==
    LET df == [ComparisonOperator |-> op, Date |-> date]
    IN  IF field = <<"c", "r", "e", "a", "t", "e", "d", "_", "a", "t">>
        THEN [err |-> "", sf |-> [s EXCEPT !.CreatedAt = Append(@, <<df>>)]]
        ELSE IF field = <<"v", "a", "l", "i", "d", "_", "a", "t">>
        THEN [err |-> "", sf |-> [s EXCEPT !.ValidAt = Append(@, <<df>>)]]
        ELSE IF field = <<"i", "n", "v", "a", "l", "i", "d", "_", "a", "t">>
        THEN [err |-> "", sf |-> [s EXCEPT !.InvalidAt = Append(@, <<df>>)]]
        ELSE IF field = <<"e", "x", "p", "i", "r", "e", "d", "_", "a", "t">>
        THEN [err |-> "", sf |-> [s EXCEPT !.ExpiredAt = Append(@, <<df>>)]]
        ELSE [err |-> "", sf |-> s]

\* addDateFilter: appends the OR group <<df>> to the field's groups in s.
addDateFilter(field, op, date, s) ==
    LET df == [ComparisonOperator |-> op, Date |-> date]
    IN  IF field = <<"c", "r", "e", "a", "t", "e", "d", "_", "a", "t">>
        THEN [err |-> "", sf |-> [s EXCEPT !.CreatedAt = Append(@, <<df>>)]]
        ELSE IF field = <<"v", "a", "l", "i", "d", "_", "a", "t">>
        THEN [err |-> "", sf |-> [s EXCEPT !.ValidAt = Append(@, <<df>>)]]
        ELSE IF field = <<"i", "n", "v", "a", "l", "i", "d", "_", "a", "t">>
        THEN [err |-> "", sf |-> [s EXCEPT !.InvalidAt = Append(@, <<df>>)]]
        ELSE IF field = <<"e", "x", "p", "i", "r", "e", "d", "_", "a", "t">>
        THEN [err |-> "", sf |-> [s EXCEPT !.ExpiredAt = Append(@, <<df>>)]]
        ELSE [err |-> "unknown date field", sf |-> s]

\* parseDateFilter asking for two parts only: a filter without a date part
\* gets a nil date.
parseDateFilter_MissingDate(filter, s) ==
    IF Contains(filter, IsNotNullMarker)
    THEN LET parts == SplitN(filter, IsNotNullMarker, 2)
         IN  IF Len(parts) < 1 \/ parts[1] = <<>>
             THEN [err |-> "invalid date filter format", sf |-> s]
             ELSE addDateFilter(parts[1], "IsNotNull", NilString, s)
    ELSE IF Contains(filter, IsNullMarker)
    THEN LET parts == SplitN(filter, IsNullMarker, 2)
         IN  IF Len(parts) < 1 \/ parts[1] = <<>>
             THEN [err |-> "invalid date filter format", sf |-> s]
             ELSE addDateFilter(parts[1], "IsNull", NilString, s)
    ELSE LET parts == SplitN(filter, Colon, 3)
         IN  IF Len(parts) < 2
             THEN [err |-> "invalid date filter format", sf |-> s]
             ELSE IF parseComparisonOperator(parts[2]).err # ""
             THEN [err |-> "invalid operator in date filter", sf |-> s]
             ELSE addDateFilter(parts[1],
                                parseComparisonOperator(parts[2]).op,
                                IF Len(parts) = 3 THEN StringPtr(parts[3])
                                ELSE NilString, s)

\* parseDateFilter without the IS NULL / IS NOT NULL checks: every filter is
\* split at its colons.
parseDateFilter_NoMarkers(filter, s) ==
    LET parts == SplitN(filter, Colon, 3)
    IN  IF Len(parts) # 3
        THEN [err |-> "invalid date filter format", sf |-> s]
        ELSE IF parseComparisonOperator(parts[2]).err # ""
        THEN [err |-> "invalid operator in date filter", sf |-> s]
        ELSE addDateFilter(parts[1],
                           parseComparisonOperator(parts[2]).op,
                           StringPtr(parts[3]), s)

\* parseDateFilter: the error and s as the call leaves it.
parseDateFilter(filter, s) ==
    IF Contains(filter, IsNotNullMarker)
    THEN LET parts == SplitN(filter, IsNotNullMarker, 2)
         IN  IF Len(parts) < 1 \/ parts[1] = <<>>
             THEN [err |-> "invalid date filter format", sf |-> s]
             ELSE addDateFilter(parts[1], "IsNotNull", NilString, s)
    ELSE IF Contains(filter, IsNullMarker)
    THEN LET parts == SplitN(filter, IsNullMarker, 2)
         IN  IF Len(parts) < 1 \/ parts[1] = <<>>
             THEN [err |-> "invalid date filter format", sf |-> s]
             ELSE addDateFilter(parts[1], "IsNull", NilString, s)
    ELSE LET parts == SplitN(filter, Colon, 3)
         IN  IF Len(parts) # 3
             THEN [err |-> "invalid date filter format", sf |-> s]
             ELSE IF parseComparisonOperator(parts[2]).err # ""
             THEN [err |-> "invalid operator in date filter", sf |-> s]
             ELSE addDateFilter(parts[1],
                                parseComparisonOperator(parts[2]).op,
                                StringPtr(parts[3]), s)

\* parseDateFilters: stops at the first filter that fails; s keeps what the
\* earlier filters added.  first is what parseDateFilter returned for the
\* first filter.
RECURSIVE parseDateFilters(_, _)
RECURSIVE DateLoop(_, _)
DateLoop_SkipFailed(first, rest) ==
    IF first.err # "" /\ rest = <<>> THEN first
    ELSE parseDateFilters(rest, first.sf)

DateLoop(first, rest) ==
    IF first.err # "" THEN first ELSE parseDateFilters(rest, first.sf)

parseDateFilters(filters, s) ==
    IF filters = <<>>
    THEN [err |-> "", sf |-> s]
    ELSE DateLoop(parseDateFilter(Head(filters), s), Tail(filters))

\* ------------------------------------------------------- parser inputs
\* The operator tokens the parsers are applied to: the ten that
\* parseComparisonOperator knows and others.
KnownOperatorTokens ==
    {<<"=">>, <<"=", "=">>, <<"<", ">">>, <<"!", "=">>, <<">">>, <<"<">>,
     <<">", "=">>, <<"<", "=">>, <<"I", "S", " ", "N", "U", "L", "L">>,
     <<"I", "S", " ", "N", "O", "T", " ", "N", "U", "L", "L">>}
OtherOperatorTokens ==
    {<<>>, <<"L", "I", "K", "E">>, <<"I", "N">>, <<"=", "<">>, <<"=", ">">>,
     <<"=", "=", "=">>, <<"!">>, <<">", "<">>, <<"=", " ">>,
     <<"i", "s", " ", "n", "u", "l", "l">>,
     <<"I", "S", " ", " ", "N", "U", "L", "L">>,
     <<"I", "S", "N", "U", "L", "L">>, <<"B", "E", "T", "W", "E", "E", "N">>,
     <<"N", "O", "T", " ", "N", "U", "L", "L">>, <<"<", "=", ">">>}
OperatorInputs == KnownOperatorTokens \cup OtherOperatorTokens

\* The value tokens, by the Go type parsePropertyFilter is to give them.
BoolTokens ==
    {<<"t", "r", "u", "e">>, <<"f", "a", "l", "s", "e">>}
NullTokens ==
    {<<"n", "u", "l", "l">>, <<>>}
IntTokens ==
    {<<"3", "0">>, <<"1", "0", "0">>, <<"7", "5">>, <<"0">>,
     <<"+", "3", "0">>, <<"-", "7">>, <<"0", "0", "7">>, <<"-", "0">>,
     <<"9", "2", "2", "3", "3", "7", "2", "0", "3", "6", "8", "5", "4", "7", "7", "5", "8", "0", "7">>,
     <<"-", "9", "2", "2", "3", "3", "7", "2", "0", "3", "6", "8", "5", "4", "7", "7", "5", "8", "0", "8">>}
FloatTokens ==
    {<<"4", ".", "5">>, <<"1", "e", "3">>, <<".", "5">>, <<"5", ".">>,
     <<"1", "e", "+", "5">>, <<"1", "E", "-", "2">>,
     <<"1", "e", "3", "0", "8">>, <<"1", "e", "-", "9", "9", "9">>,
     <<"0", "e", "9", "9", "9", "9", "9">>,
     <<"9", "2", "2", "3", "3", "7", "2", "0", "3", "6", "8", "5", "4", "7", "7", "5", "8", "0", "8">>,
     <<"-", "9", "2", "2", "3", "3", "7", "2", "0", "3", "6", "8", "5", "4", "7", "7", "5", "8", "0", "9">>,
     <<"i", "n", "f">>, <<"-", "I", "n", "f", "i", "n", "i", "t", "y">>,
     <<"N", "a", "N">>,
     <<"1", ".", "7", "9", "7", "6", "9", "3", "1", "3", "4", "8", "6", "2", "3", "1", "5", "8", "e", "3", "0", "8">>}
StringTokens ==
    {<<"a", ":", "b", ":", "c">>, <<"3", ":", "4">>, <<":">>,
     <<"1", "0", ":", "0", "0", ":", "0", "0", "Z">>,
     <<"a", "c", "t", "i", "v", "e">>, <<"T", "r", "u", "e">>,
     <<"F", "A", "L", "S", "E">>, <<"N", "u", "l", "l">>, <<"n", "i", "l">>,
     <<"a", "b", "c">>, <<"1", "e">>, <<"e", "5">>, <<"-">>, <<"+">>, <<".">>,
     <<"1", ".", "2", ".", "3">>, <<"+", "n", "a", "n">>,
     <<"1", "e", "3", "0", "9">>, <<"2", "e", "3", "0", "8">>,
     <<"1", ".", "7", "9", "7", "6", "9", "3", "1", "3", "4", "8", "6", "2", "3", "1", "5", "9", "e", "3", "0", "8">>,
     <<" ", "3", "0">>, <<"3", "0", " ">>, <<"3", ":", "4">>,
     <<"1", ",", "5">>, <<"-", "-", "7">>, <<"a", ":", "b", ":", "c">>}
ValueInputs ==
    BoolTokens \cup NullTokens \cup IntTokens \cup FloatTokens \cup StringTokens

NameInputs ==
    {<<>>, <<"a">>, <<"a", "g", "e">>}

\* name:op:value for every name, operator token and value token above.
Join3(a, b, c) == a \o Colon \o b \o Colon \o c
ThreePartInputs ==
    {Join3(n, o, v) : n \in NameInputs,
                      o \in OperatorInputs \ {<<"I", "S", " ", "N", "U", "L", "L">>,
                                              <<"I", "S", " ", "N", "O", "T", " ", "N", "U", "L", "L">>},
                      v \in ValueInputs}

\* Filters with an IS NULL or IS NOT NULL marker: alone after a name, with
\* text after the marker, after a name with colons, and inside a value.
MarkerInputs ==
    {<<"a", ":", "I", "S", " ", "N", "U", "L", "L">>,
     <<"a", ":", "I", "S", " ", "N", "O", "T", " ", "N", "U", "L", "L">>,
     <<":", "I", "S", " ", "N", "U", "L", "L">>,
     <<":", "I", "S", " ", "N", "O", "T", " ", "N", "U", "L", "L">>,
     <<"a", ":", "b", ":", "I", "S", " ", "N", "U", "L", "L">>,
     <<"a", ":", "=", ":", "3", ":", "I", "S", " ", "N", "O", "T", " ", "N", "U", "L", "L">>,
     <<"a", ":", "I", "S", " ", "N", "U", "L", "L", ":", "=", ":", "3">>,
     <<"a", ":", "I", "S", " ", "N", "O", "T", " ", "N", "U", "L", "L", "x">>,
     <<"a", ":", "I", "S", " ", "N", "U", "L", "L", ":", "I", "S", " ", "N", "O", "T", " ", "N", "U", "L", "L">>,
     <<"a", ":", "I", "S", " ", "N", "O", "T", " ", "N", "U", "L", "L", ":", "I", "S", " ", "N", "U", "L", "L">>,
     <<":", "I", "S", " ", "N", "U", "L", "L", ":", "I", "S", " ", "N", "O", "T", " ", "N", "U", "L", "L">>,
     <<"a", ":", "I", "S", " ", "N", "O", "T", " ", "N", "U", "L", "L", ":", "I", "S", " ", "N", "O", "T", " ", "N", "U", "L", "L">>,
     <<"a", ":", "I", "S", " ", "N", "U", "L", "L", ":", "b", ":", "I", "S", " ", "N", "U", "L", "L">>}

\* Filters with fewer than two colons.
ShortInputs ==
    {<<>>, <<"a">>, <<"s", "t", "a", "t", "u", "s">>,
     <<"s", "t", "a", "t", "u", "s", ":", "=">>, <<"a", ":">>, <<":">>,
     <<":", "a">>, <<"a", ":", "I", "S", " ", "N", "U", "L">>}

PropertyInputs == ThreePartInputs \cup MarkerInputs \cup ShortInputs

\* The date filters the parser is applied to: every field name below with
\* every operator token and date token, the IS NULL forms of every field
\* name, and filters with fewer than two colons.
KnownFields ==
    {<<"c", "r", "e", "a", "t", "e", "d", "_", "a", "t">>,
     <<"v", "a", "l", "i", "d", "_", "a", "t">>,
     <<"i", "n", "v", "a", "l", "i", "d", "_", "a", "t">>,
     <<"e", "x", "p", "i", "r", "e", "d", "_", "a", "t">>}
OtherFields ==
    {<<>>, <<"x">>, <<"c", "r", "e", "a", "t", "e", "d">>,
     <<"C", "r", "e", "a", "t", "e", "d", "_", "A", "t">>,
     <<"c", "r", "e", "a", "t", "e", "d", "_", "a", "t", " ">>,
     <<"u", "n", "k", "n", "o", "w", "n", "_", "f", "i", "e", "l", "d">>,
     <<"v", "a", "l", "i", "d">>}
FieldInputs == KnownFields \cup OtherFields
DateTokens ==
    {<<"2", "0", "2", "4", "-", "0", "1", "-", "0", "1">>, <<>>,
     <<"2", "0", "2", "4">>, <<"a", ":", "b">>,
     <<"2", "0", "2", "4", "-", "0", "1", "-", "0", "1", "T", "1", "0", ":", "0", "0", ":", "0", "0", "Z">>}
ThreePartDateInputs ==
    {Join3(f, o, d) : f \in FieldInputs,
                      o \in OperatorInputs \ {<<"I", "S", " ", "N", "U", "L", "L">>,
                                              <<"I", "S", " ", "N", "O", "T", " ", "N", "U", "L", "L">>},
                      d \in DateTokens}
MarkerDateInputs ==
    {f \o IsNullMarker : f \in FieldInputs}
    \cup {f \o IsNotNullMarker : f \in FieldInputs}
    \cup
    {<<"c", "r", "e", "a", "t", "e", "d", "_", "a", "t", ":", "I", "S", " ", "N", "U", "L", "L", ":", "x">>,
     <<"v", "a", "l", "i", "d", "_", "a", "t", ":", "I", "S", " ", "N", "O", "T", " ", "N", "U", "L", "L", "x">>,
     <<"c", "r", "e", "a", "t", "e", "d", "_", "a", "t", ":", ">", ":", "2", "0", "2", "4", ":", "I", "S", " ", "N", "O", "T", " ", "N", "U", "L", "L">>,
     <<"e", "x", "p", "i", "r", "e", "d", "_", "a", "t", ":", "I", "S", " ", "N", "U", "L", "L", ":", "I", "S", " ", "N", "O", "T", " ", "N", "U", "L", "L">>,
     <<"i", "n", "v", "a", "l", "i", "d", "_", "a", "t", ":", "I", "S", " ", "N", "O", "T", " ", "N", "U", "L", "L", ":", "I", "S", " ", "N", "U", "L", "L">>,
     <<"x", ":", "I", "S", " ", "N", "U", "L", "L", ":", ">", ":", "2", "0", "2", "4">>}
ShortDateInputs ==
    {<<>>, <<"c", "r", "e", "a", "t", "e", "d", "_", "a", "t">>,
     <<"c", "r", "e", "a", "t", "e", "d", "_", "a", "t", ":", ">">>,
     <<"c", "r", "e", "a", "t", "e", "d", "_", "a", "t", ":">>, <<":">>,
     <<"v", "a", "l", "i", "d", "_", "a", "t", ":", "I", "S", " ", "N", "U", "L">>}
DateInputs == ThreePartDateInputs \cup MarkerDateInputs \cup ShortDateInputs

\* ----------------------------------------------------- applying the parsers
NoOperator == [err |-> "", op |-> ""]
NoResult == [err |-> "", pf |-> NoFilter]

IdleParse ==
    /\ fn = "none"
    /\ arg = <<>>
    /\ opOut = NoOperator
    /\ pfOut = NoResult

\* Each behaviour applies one parser to one input: the parsers are pure, so
\* a call does not depend on the calls before it.
CallParseComparisonOperator ==
    /\ fn = "none"
    /\ \E tok \in OperatorInputs :
        /\ fn' = "parseComparisonOperator"
        /\ arg' = tok
        /\ opOut' = parseComparisonOperator(tok)
    /\ UNCHANGED pfOut
    /\ UNCHANGED <<waitVars, cmdVars, dateVars, twVars, delVars, asyncVars, cfgVars, profVars>>

CallParsePropertyFilter ==
    /\ fn = "none"
    /\ \E filter \in PropertyInputs :
        /\ fn' = "parsePropertyFilter"
        /\ arg' = filter
        /\ pfOut' = parsePropertyFilter(filter)
    /\ UNCHANGED opOut
    /\ UNCHANGED <<waitVars, cmdVars, dateVars, twVars, delVars, asyncVars, cfgVars, profVars>>

\* No parseDateFilter call yet: sf := &zep.SearchFilters{}.
IdleDate ==
    /\ dateErr = ""
    /\ dateSet = EmptyFilters
    /\ dateLog = <<>>

\* What a parseDateFilter call that returned r leaves behind.
DateReturns(filter, r) ==
    /\ dateErr' = r.err
    /\ dateSet' = r.sf
    /\ dateLog' = Append(dateLog, [filter |-> filter, err |-> r.err])

\* parseDateFilter applied once to a fresh SearchFilters.
CallParseDateFilter ==
    /\ fn = "none"
    /\ \E filter \in DateInputs :
        /\ fn' = "parseDateFilter"
        /\ arg' = filter
        /\ DateReturns(filter, parseDateFilter(filter, dateSet))
    /\ UNCHANGED <<opOut, pfOut>>
    /\ UNCHANGED <<waitVars, cmdVars, twVars, delVars, asyncVars, cfgVars, profVars>>

\* ------------------------------------- date filters added to one filter set
MaxDateCalls == 3
DateSeqInputs ==
    {<<"c", "r", "e", "a", "t", "e", "d", "_", "a", "t", ":", ">", ":", "2", "0", "2", "4">>,
     <<"c", "r", "e", "a", "t", "e", "d", "_", "a", "t", ":", "<", ":", "2", "0", "2", "5">>,
     <<"c", "r", "e", "a", "t", "e", "d", "_", "a", "t", ":", "I", "S", " ", "N", "U", "L", "L">>,
     <<"v", "a", "l", "i", "d", "_", "a", "t", ":", "=", ":", "2", "0", "2", "4">>,
     <<"v", "a", "l", "i", "d", "_", "a", "t", ":", "I", "S", " ", "N", "O", "T", " ", "N", "U", "L", "L">>,
     <<"i", "n", "v", "a", "l", "i", "d", "_", "a", "t", ":", ">", "=", ":", "2", "0", "2", "4">>,
     <<"e", "x", "p", "i", "r", "e", "d", "_", "a", "t", ":", "<", ">", ":", "2", "0", "2", "4">>,
     <<"x", ":", ">", ":", "2", "0", "2", "4">>,
     <<"c", "r", "e", "a", "t", "e", "d", "_", "a", "t", ":", "L", "I", "K", "E", ":", "2", "0", "2", "4">>,
     <<"c", "r", "e", "a", "t", "e", "d", "_", "a", "t", ":", ">">>}

\* parseDateFilter applied to the SearchFilters the earlier calls filled.
AddDate ==
    /\ Len(dateLog) < MaxDateCalls
    /\ \E filter \in DateSeqInputs :
        DateReturns(filter, parseDateFilter(filter, dateSet))
    /\ UNCHANGED <<waitVars, parseVars, cmdVars, twVars, delVars, asyncVars, cfgVars, profVars>>

\* parseDateFilters applied once to the SearchFilters of a command.
MaxDateList == 3
DateListInputs == UNION {[1..k -> DateSeqInputs] : k \in 0..MaxDateList}

\* The set as it can be when the date filters are parsed: the label
\* filters may be there already, the date fields are still empty.
DateStartSets ==
    {EmptyFilters,
     [EmptyFilters EXCEPT !.NodeLabels = <<<<"A">>, <<"B">>>>],
     [EmptyFilters EXCEPT !.ExcludeEdgeTypes = <<<<"A">>>>]}

InitDateList ==
    /\ dateErr = ""
    /\ dateSet \in DateStartSets
    /\ dateLog = <<>>

CallParseDateFilters ==
    /\ fn = "none"
    /\ \E filters \in DateListInputs :
        /\ fn' = "parseDateFilters"
        /\ arg' = filters
        /\ dateErr' = parseDateFilters(filters, dateSet).err
        /\ dateSet' = parseDateFilters(filters, dateSet).sf
    /\ UNCHANGED <<opOut, pfOut, dateLog>>
    /\ UNCHANGED <<waitVars, cmdVars, twVars, delVars, asyncVars, cfgVars, profVars>>

\* ================================================ graph search command
\* strings.Split
Split(str, sep) == SplitN(str, sep, Len(str) + 1)

\* hasFilters
HasFilters(f) ==
    \/ f.excludeNodeLabels # <<>> \/ f.excludeEdgeTypes # <<>>
    \/ f.nodeLabels # <<>> \/ f.edgeTypes # <<>>
    \/ Len(f.propertyFilters) > 0 \/ Len(f.dateFilters) > 0

\* A label flag's value in the request: split at commas when it is set.
LabelList(flag) == IF flag # <<>> THEN Split(flag, <<",">>) ELSE <<>>

\* The new SearchFilters with the four label lists.
LabelFilters(f) ==
    [EmptyFilters EXCEPT
        !.ExcludeNodeLabels = LabelList(f.excludeNodeLabels),
        !.ExcludeEdgeTypes = LabelList(f.excludeEdgeTypes),
        !.NodeLabels = LabelList(f.nodeLabels),
        !.EdgeTypes = LabelList(f.edgeTypes)]

\* if len(dateFilters) > 0 { if err := parseDateFilters(...); err != nil ... }
\* with dates what parseDateFilters returned.
DateStep(f, dates) ==
    IF Len(f.dateFilters) > 0 /\ dates.err # ""
    THEN [err |-> dates.err, sf |-> dates.sf]
    ELSE [err |-> "", sf |-> dates.sf]

\* PropertyStep dropping the error of parseDateFilters.
PropertyStep_IgnoreDateError(f, labelled, props) ==
    IF Len(f.propertyFilters) > 0 /\ props.err # ""
    THEN [err |-> props.err, sf |-> labelled]
    ELSE [err |-> "",
          sf |-> parseDateFilters(
                     f.dateFilters,
                     [labelled EXCEPT !.PropertyFilters = props.result]).sf]

\* if len(propertyFilters) > 0 { ... } and what follows it, with props what
\* parsePropertyFilters returned.
PropertyStep(f, labelled, props) ==
    IF Len(f.propertyFilters) > 0 /\ props.err # ""
    THEN [err |-> props.err, sf |-> labelled]
    ELSE DateStep(f, parseDateFilters(
                         f.dateFilters,
                         [labelled EXCEPT !.PropertyFilters = props.result]))

\* Lines 504-542 of the command: the search filters built from the flags,
\* and the error of the first filter that does not parse.
BuildFilters(f) ==
    IF ~HasFilters(f)
    THEN [err |-> "", sf |-> NilFilters]
    ELSE PropertyStep(f, LabelFilters(f),
                      parsePropertyFilters(f.propertyFilters))

\* The flags one graph search command can be given.
MaxFilters == 2
SeqsUpTo(S, n) == UNION {[1..k -> S] : k \in 0..n}
PropertyFlagInputs ==
    {<<"a", ":", ">", ":", "3", "0">>,
     <<"a", ":", "I", "S", " ", "N", "U", "L", "L">>,
     <<"a", ":", "L", "I", "K", "E", ":", "x">>}
DateFlagInputs ==
    {<<"c", "r", "e", "a", "t", "e", "d", "_", "a", "t", ":", ">", ":", "2", "0", "2", "4">>,
     <<"v", "a", "l", "i", "d", "_", "a", "t", ":", "I", "S", " ", "N", "U", "L", "L">>,
     <<"x", ":", ">", ":", "2", "0", "2", "4">>}
LabelFlagInputs == {<<>>, <<"A", ",", "B">>}
\* The target flags: --user, --graph or neither.
TargetInputs ==
    {[user |-> "", graph |-> ""], [user |-> "u1", graph |-> ""],
     [user |-> "", graph |-> "g1"]}
FlagInputs ==
    {[user |-> t.user, graph |-> t.graph, apiKey |-> k,
      excludeNodeLabels |-> l, excludeEdgeTypes |-> l,
      nodeLabels |-> l, edgeTypes |-> l,
      propertyFilters |-> p, dateFilters |-> d] :
        t \in TargetInputs, k \in {"", "key"}, l \in LabelFlagInputs,
        p \in SeqsUpTo(PropertyFlagInputs, MaxFilters),
        d \in SeqsUpTo(DateFlagInputs, MaxFilters)}

NoRequest == [UserID |-> NilString, GraphID |-> NilString, SearchFilters |-> NilFilters]

IdleCmd ==
    /\ flags = <<>>
    /\ cmdPc = "idle"
    /\ cmdErr = ""
    /\ sf = NilFilters
    /\ searchCalls = 0
    /\ sent = NoRequest

InitSearch ==
    /\ flags \in FlagInputs
    /\ cmdPc = "start"
    /\ cmdErr = ""
    /\ sf = NilFilters
    /\ searchCalls = 0
    /\ sent = NoRequest

\* if userID == "" && graphID == "" { return fmt.Errorf(...) }
CmdCheckTarget ==
    /\ cmdPc = "start"
    /\ IF flags.user = "" /\ flags.graph = ""
       THEN cmdPc' = "done" /\ cmdErr' = "either --user or --graph is required"
       ELSE cmdPc' = "client" /\ UNCHANGED cmdErr
    /\ UNCHANGED <<flags, sf, searchCalls, sent>>
    /\ UNCHANGED <<waitVars, parseVars, dateVars, twVars, delVars, asyncVars, cfgVars, profVars>>

\* c, err := client.New(): fails when no API key is configured.
CmdNewClient ==
    /\ cmdPc = "client"
    /\ IF flags.apiKey = ""
       THEN cmdPc' = "done" /\ cmdErr' = "no API key configured"
       ELSE cmdPc' = "filters" /\ UNCHANGED cmdErr
    /\ UNCHANGED <<flags, sf, searchCalls, sent>>
    /\ UNCHANGED <<waitVars, parseVars, dateVars, twVars, delVars, asyncVars, cfgVars, profVars>>

\* The request's search filters are built; a parse error is returned.
ReturnOrSearch(built) ==
    /\ sf' = built.sf
    /\ IF built.err # ""
       THEN cmdPc' = "done" /\ cmdErr' = built.err
       ELSE cmdPc' = "search" /\ UNCHANGED cmdErr

CmdBuildFilters ==
    /\ cmdPc = "filters"
    /\ ReturnOrSearch(BuildFilters(flags))
    /\ UNCHANGED <<flags, searchCalls, sent>>
    /\ UNCHANGED <<waitVars, parseVars, dateVars, twVars, delVars, asyncVars, cfgVars, profVars>>

\* resp, err := c.Graph.Search(ctx, req), and the command returns.
CmdSearch ==
    /\ cmdPc = "search"
    /\ searchCalls' = searchCalls + 1
    /\ sent' = [UserID |-> IF flags.user # "" THEN StringPtr(flags.user)
                           ELSE NilString,
                GraphID |-> IF flags.user # "" THEN NilString
                            ELSE StringPtr(flags.graph),
                SearchFilters |-> sf]
    /\ \E ok \in BOOLEAN : cmdErr' = IF ok THEN "" ELSE "searching graph"
    /\ cmdPc' = "done"
    /\ UNCHANGED <<flags, sf>>
    /\ UNCHANGED <<waitVars, parseVars, dateVars, twVars, delVars, asyncVars, cfgVars, profVars>>

\* ==================================================== task wait command
\* A formatted message is the sequence of its pieces: the text of the format
\* string and the arguments put into it, each with the name of its source.
Lit(text) == [from |-> "format", text |-> text]
Arg(name, text) == [from |-> name, text |-> text]

\* The error waitForTask returns, <<>> for nil.
WaitError(taskID) ==
    IF result = "timeout"
    THEN <<Lit("timeout waiting for task "), Arg("taskID", taskID)>>
    ELSE IF result = "transport"
    THEN <<Lit("getting task: "), Arg("err", "<error>")>>
    ELSE IF result = "taskfailed"
    THEN <<Lit("task "), Arg("taskID", taskID), Lit(" failed: "),
           Arg("errMsg", errMsg)>>
    ELSE <<>>

\* output.Info: the message goes to stderr unless --quiet is set.
Info(outp, quiet, msg) == IF quiet THEN outp ELSE Append(outp, msg)

TaskIDInputs == {"task-1", "5m0s"}
TaskWaitInputs ==
    [taskID : TaskIDInputs, quiet : BOOLEAN, apiKey : {"", "key"}]

IdleTaskWait ==
    /\ twIn = [taskID |-> "", quiet |-> FALSE, apiKey |-> ""]
    /\ twPc = "idle"
    /\ twErr = <<>>
    /\ twOut = <<>>

\* zepctl task wait <task-id> --timeout .. --poll-interval ..: the flags are
\* read and waitForTask has not been entered.
InitTaskWait ==
    /\ twIn \in TaskWaitInputs
    /\ twPc = "start"
    /\ twErr = <<>>
    /\ twOut = <<>>
    /\ timeout \in 1..MaxTimeout
    /\ pollInterval \in 1..MaxPoll
    /\ now = 0
    /\ ctxDone = FALSE
    /\ tickReady = FALSE
    /\ nextTick = 0
    /\ pc = "idle"
    /\ result = "none"
    /\ errMsg = Nil
    /\ task = NoTask
    /\ hist = <<>>
    /\ fetches = 0
    /\ inflight = 0
    /\ lateFetch = FALSE
    /\ fetchTimes = <<>>

\* client.New(), the first output.Info, and the call of waitForTask, which
\* creates the context and the ticker.
TaskWaitStart ==
    /\ twPc = "start"
    /\ IF twIn.apiKey = ""
       THEN /\ twPc' = "done"
            /\ twErr' = <<Lit("no API key configured; set ZEP_API_KEY or configure a profile")>>
            /\ UNCHANGED <<twOut, pc, nextTick>>
       ELSE /\ twPc' = "waiting"
            /\ twOut' = Info(twOut, twIn.quiet,
                             <<Lit("Waiting for task "),
                               Arg("taskID", twIn.taskID), Lit("...")>>)
            /\ pc' = "select"
            /\ nextTick' = pollInterval
            /\ UNCHANGED twErr
    /\ UNCHANGED twIn
    /\ UNCHANGED <<timeout, pollInterval, now, ctxDone, tickReady, result,
                   errMsg, task, hist, fetches, inflight, lateFetch, fetchTimes>>
    /\ UNCHANGED <<parseVars, cmdVars, dateVars, delVars, asyncVars, cfgVars, profVars>>

\* The clock while waitForTask runs inside the command.
AdvanceRunning ==
    /\ pc \in {"select", "fetching"}
    /\ TimePasses

\* waitForTask returned: its error is the command's error, and success is
\* reported with the second output.Info.
TaskWaitReturn ==
    /\ twPc = "waiting"
    /\ pc = "done"
    /\ twPc' = "done"
    /\ twErr' = WaitError(twIn.taskID)
    /\ twOut' = IF result = "success"
                THEN Info(twOut, twIn.quiet,
                          <<Lit("Task "), Arg("taskID", twIn.taskID),
                            Lit(" completed successfully")>>)
                ELSE twOut
    /\ UNCHANGED twIn
    /\ UNCHANGED <<waitVars, parseVars, cmdVars, dateVars, delVars, asyncVars, cfgVars, profVars>>

\* ===================================================== delete commands
\* strings.ToLower on the letters of the answers.
UpperToLower ==
    "A" :> "a" @@ "B" :> "b" @@ "C" :> "c" @@ "D" :> "d" @@ "E" :> "e" @@
    "F" :> "f" @@ "G" :> "g" @@ "H" :> "h" @@ "I" :> "i" @@ "J" :> "j" @@
    "K" :> "k" @@ "L" :> "l" @@ "M" :> "m" @@ "N" :> "n" @@ "O" :> "o" @@
    "P" :> "p" @@ "Q" :> "q" @@ "R" :> "r" @@ "S" :> "s" @@ "T" :> "t" @@
    "U" :> "u" @@ "V" :> "v" @@ "W" :> "w" @@ "X" :> "x" @@ "Y" :> "y" @@
    "Z" :> "z"
ToLower(str) ==
    [i \in 1..Len(str) |->
        IF str[i] \in DOMAIN UpperToLower THEN UpperToLower[str[i]]
        ELSE str[i]]

\* strings.TrimSpace: the white space of the answers is the space, the tab,
\* the line feed, the form feed and the carriage return.
WhiteSpace == {" ", "\t", "\n", "\f", "\r"}
RECURSIVE TrimLeft(_)
TrimLeft(str) ==
    IF str # <<>> /\ Head(str) \in WhiteSpace THEN TrimLeft(Tail(str))
    ELSE str
RECURSIVE TrimRight(_)
TrimRight(str) ==
    IF str # <<>> /\ str[Len(str)] \in WhiteSpace
    THEN TrimRight(SubSeq(str, 1, Len(str) - 1))
    ELSE str
TrimSpace(str) == TrimRight(TrimLeft(str))

\* reader.ReadString('\n'): the input up to and with the first line feed,
\* or all of it when it has none (the error is dropped).
ReadString(input) ==
    IF Contains(input, <<"\n">>)
    THEN SubSeq(input, 1, Index(input, <<"\n">>))
    ELSE input

\* Confirmed with an empty answer counting as yes.
Confirmed_DefaultYes(input) ==
    TrimSpace(ToLower(ReadString(input))) \in {<<"y">>, <<"y", "e", "s">>, <<>>}

\* The answer read from stdin is y or yes.
Confirmed(input) ==
    TrimSpace(ToLower(ReadString(input))) \in {<<"y">>, <<"y", "e", "s">>}

\* The API delete commands and config delete-profile.
ApiKinds ==
    {"user", "thread", "graph", "edge", "episode", "summary instruction"}
DeleteKinds == ApiKinds \cup {"profile"}

\* fmt.Printf("Delete graph %q? [y/N]: ", graphID)
Prompt(kind, name) ==
    [stream |-> "stdout",
     msg |-> <<Lit("Delete " \o kind \o " "), Arg("name", name),
               Lit(IF kind = "user"
                   THEN " and all associated data? This cannot be undone. [y/N]: "
                   ELSE "? [y/N]: ")>>]
Aborted == [stream |-> "stderr", msg |-> <<Lit("Aborted")>>]
Deleted(kind, name) ==
    [stream |-> "stderr",
     msg |-> <<Lit("Deleted " \o kind \o " "), Arg("name", name)>>]
KeychainWarning ==
    [stream |-> "stderr",
     msg |-> <<Lit("Warning: Could not remove API key from keychain: "),
               Arg("err", "<error>")>>]

\* config.Config with its profiles; NilConfig is the nil pointer.
ProfileNames == {"dev", "prod"}
Profile(name) == [Name |-> name, APIURL |-> ""]
NilConfig == [isNil |-> TRUE, CurrentProfile |-> "", Profiles |-> <<>>]
Config(current, names) ==
    [isNil |-> FALSE, CurrentProfile |-> current,
     Profiles |-> [i \in 1..Len(names) |-> Profile(names[i])]]
ConfigInputs ==
    {Config("", <<>>), Config("dev", <<"dev">>),
     Config("dev", <<"dev", "prod">>), Config("prod", <<"dev", "prod">>)}

\* The keychain holds a key for every profile of the config.
KeysOf(cfg) ==
    [n \in ProfileNames |->
        IF \E i \in 1..Len(cfg.Profiles) : cfg.Profiles[i].Name = n
        THEN "secret" ELSE ""]

\* What the user types at the prompt.
YesAnswers ==
    {<<"y", "\n">>, <<"y", "e", "s", "\n">>, <<"Y", "\n">>,
     <<"Y", "E", "S", "\n">>, <<"Y", "e", "s", "\n">>,
     <<" ", "y", " ", "\n">>, <<"\t", "y", "\r", "\n">>, <<"y">>,
     <<"y", "\n", "n", "\n">>, <<"y", "E", "s">>}
OtherAnswers ==
    {<<>>, <<"\n">>, <<"n", "\n">>, <<"n", "o", "\n">>, <<"N", "\n">>,
     <<"y", "e", "s", "s", "\n">>, <<"y", "e", "\n">>,
     <<"y", " ", "e", " ", "s", "\n">>, <<"y", "y", "\n">>,
     <<"n", "\n", "y", "\n">>,
     <<"y", "e", "s", " ", "p", "l", "e", "a", "s", "e", "\n">>,
     <<"o", "k", "\n">>, <<"1", "\n">>, <<"t", "r", "u", "e", "\n">>,
     <<"n">>, <<"\n", "\n", "y", "\n">>}
AnswerInputs == YesAnswers \cup OtherAnswers

\* The runs of the delete commands: the API commands do not read the
\* config, and only summary-instructions delete has a --user flag.
DeleteInputs ==
    [kind : ApiKinds \ {"summary instruction"}, name : {"dev"},
     force : BOOLEAN, quiet : BOOLEAN, stdin : AnswerInputs,
     apiKey : {"", "key"}, user : {<<>>}, config : {Config("", <<>>)}]
    \cup
    [kind : {"summary instruction"}, name : {"dev"},
     force : BOOLEAN, quiet : BOOLEAN, stdin : AnswerInputs,
     apiKey : {"key"}, user : {<<>>, <<"u", "1", ",", "u", "2">>},
     config : {Config("", <<>>)}]
    \cup
    [kind : {"profile"}, name : ProfileNames,
     force : BOOLEAN, quiet : BOOLEAN, stdin : AnswerInputs,
     apiKey : {""}, user : {<<>>}, config : ConfigInputs]

IdleDelete ==
    /\ delIn = [kind |-> "none"]
    /\ delPc = "idle"
    /\ delErr = <<>>
    /\ delOut = <<>>
    /\ requests = <<>>
    /\ cfgMem = NilConfig
    /\ cfgDisk = Config("", <<>>)
    /\ keychain = KeysOf(Config("", <<>>))

\* A delete command starts: config delete-profile loads the config first,
\* the others go to the confirmation at once.
InitDelete ==
    /\ delIn \in DeleteInputs
    /\ delPc = IF delIn.kind = "profile" THEN "load" ELSE "confirm"
    /\ delErr = <<>>
    /\ delOut = <<>>
    /\ requests = <<>>
    /\ cfgMem = NilConfig
    /\ cfgDisk = delIn.config
    /\ keychain = KeysOf(delIn.config)

\* cfg.GetProfile(name) != nil
HasProfile(cfg, name) ==
    \E i \in 1..Len(cfg.Profiles) : cfg.Profiles[i].Name = name

\* delete-profile: config.Load(), which reads the file or fails, and the
\* check that the profile exists.
DelLoad ==
    /\ delPc = "load"
    /\ \E ok \in BOOLEAN :
        IF ~ok
        THEN /\ delErr' = <<Lit("loading config: "), Arg("err", "<error>")>>
             /\ delPc' = "done"
             /\ UNCHANGED cfgMem
        ELSE /\ cfgMem' = cfgDisk
             /\ IF HasProfile(cfgDisk, delIn.name)
                THEN delPc' = "confirm" /\ UNCHANGED delErr
                ELSE /\ delPc' = "done"
                     /\ delErr' = <<Lit("profile "), Arg("name", delIn.name),
                                    Lit(" not found")>>
    /\ UNCHANGED <<delIn, delOut, requests, cfgDisk, keychain>>
    /\ UNCHANGED <<waitVars, parseVars, cmdVars, dateVars, twVars, asyncVars, cfgVars, profVars>>

\* if !force { prompt; read the answer; anything but y or yes aborts }
DelConfirm ==
    /\ delPc = "confirm"
    /\ IF delIn.force
       THEN delPc' = "delete" /\ UNCHANGED delOut
       ELSE IF Confirmed(delIn.stdin)
       THEN /\ delPc' = "delete"
            /\ delOut' = Append(delOut, Prompt(delIn.kind, delIn.name))
       ELSE /\ delPc' = "done"
            /\ delOut' = Info(Append(delOut, Prompt(delIn.kind, delIn.name)),
                              delIn.quiet, Aborted)
    /\ UNCHANGED <<delIn, delErr, requests, cfgMem, cfgDisk, keychain>>
    /\ UNCHANGED <<waitVars, parseVars, cmdVars, dateVars, twVars, asyncVars, cfgVars, profVars>>

\* The request of an API delete command; summary-instructions delete
\* sends the instruction name and the users of --user.
DeleteRequest ==
    [kind |-> delIn.kind, name |-> delIn.name,
     UserIDs |-> IF delIn.user # <<>> THEN Split(delIn.user, <<",">>)
                 ELSE <<>>]

\* client.New(), the delete call, which succeeds or fails, and the report.
DelCallApi ==
    /\ delPc = "delete"
    /\ delIn.kind \in ApiKinds
    /\ delPc' = "done"
    /\ IF delIn.apiKey = ""
       THEN /\ delErr' = <<Lit("no API key configured; set ZEP_API_KEY or configure a profile")>>
            /\ UNCHANGED <<requests, delOut>>
       ELSE /\ requests' = Append(requests, DeleteRequest)
            /\ \E ok \in BOOLEAN :
                IF ok
                THEN /\ delOut' = Info(delOut, delIn.quiet,
                                       Deleted(delIn.kind, delIn.name))
                     /\ UNCHANGED delErr
                ELSE /\ delErr' = <<Lit("deleting " \o delIn.kind \o ": "),
                                    Arg("err", "<error>")>>
                     /\ UNCHANGED delOut
    /\ UNCHANGED <<delIn, cfgMem, cfgDisk, keychain>>
    /\ UNCHANGED <<waitVars, parseVars, cmdVars, dateVars, twVars, asyncVars, cfgVars, profVars>>

\* cfg without the profile name, current-profile left as it is.
WithoutProfile_KeepCurrent(cfg, name) ==
    [cfg EXCEPT !.Profiles = SelectSeq(cfg.Profiles, LAMBDA q : q.Name # name)]

\* cfg without the profile name, and with the first remaining profile (or
\* none) as the current one when name was current.
WithoutProfile(cfg, name) ==
    LET kept == SelectSeq(cfg.Profiles, LAMBDA q : q.Name # name)
    IN  [cfg EXCEPT
            !.Profiles = kept,
            !.CurrentProfile =
                IF cfg.CurrentProfile # name THEN cfg.CurrentProfile
                ELSE IF Len(kept) > 0 THEN kept[1].Name
                ELSE ""]

\* What delete-profile does once cfg.Save() succeeded: keyring.Delete, a
\* warning when that fails, and the report.
AfterSave(keyOk) ==
    /\ keychain' = IF keyOk THEN [keychain EXCEPT ![delIn.name] = ""]
                   ELSE keychain
    /\ delOut' = Info(IF keyOk THEN delOut
                      ELSE Append(delOut, KeychainWarning),
                      delIn.quiet, Deleted("profile", delIn.name))

\* delete-profile after the confirmation: the profile is taken out of cfg,
\* cfg is saved, and the key is removed from the keychain.
DelProfile ==
    /\ delPc = "delete"
    /\ delIn.kind = "profile"
    /\ delPc' = "done"
    /\ cfgMem' = WithoutProfile(cfgMem, delIn.name)
    /\ \E saveOk \in BOOLEAN, keyOk \in BOOLEAN :
        IF saveOk
        THEN /\ cfgDisk' = cfgMem'
             /\ AfterSave(keyOk)
             /\ UNCHANGED delErr
        ELSE /\ delErr' = <<Lit("saving config: "), Arg("err", "<error>")>>
             /\ UNCHANGED <<cfgDisk, keychain, delOut>>
    /\ UNCHANGED <<delIn, requests>>
    /\ UNCHANGED <<waitVars, parseVars, cmdVars, dateVars, twVars, asyncVars, cfgVars, profVars>>

\* ============================== graph clone and thread add-messages
\* Default task polling settings, in seconds.
defaultTaskTimeout == 300
defaultTaskPollInterval == 1

\* output.Print(resp): the response goes to stdout, or the write fails.
Response == [stream |-> "stdout", msg |-> <<Arg("resp", "<response>")>>]
PrintError == <<Lit("<output error>")>>
NoKeyError ==
    <<Lit("no API key configured; set ZEP_API_KEY or configure a profile")>>
Line(text) == [stream |-> "stderr", msg |-> <<Lit(text)>>]
Line2(text, name, value) ==
    [stream |-> "stderr", msg |-> <<Lit(text), Arg(name, value)>>]

NoResponse == [state |-> "none", TaskID |-> Nil, GraphID |-> Nil, UserID |-> Nil]

IdleAsync ==
    /\ asyncIn = [cmd |-> "none"]
    /\ asyncPc = "idle"
    /\ asyncErr = <<>>
    /\ asyncOut = <<>>
    /\ asyncResp = NoResponse
    /\ apiLog = <<>>

\* ------------------------------------------------------------ graph clone
CloneInputs ==
    [cmd : {"clone"}, sourceUser : {"", "u1"}, targetUser : {"", "u2"},
     sourceGraph : {"", "g1"}, targetGraph : {"", "g2"},
     wait : BOOLEAN, quiet : BOOLEAN, apiKey : {"", "key"}]

InitClone ==
    /\ asyncIn \in CloneInputs
    /\ asyncPc = "start"
    /\ asyncErr = <<>>
    /\ asyncOut = <<>>
    /\ asyncResp = NoResponse
    /\ apiLog = <<>>

\* The four checks of the source and target flags.
CloneFlagError(f) ==
    IF f.sourceUser = "" /\ f.sourceGraph = ""
    THEN <<Lit("either --source-user or --source-graph is required")>>
    ELSE IF f.sourceUser # "" /\ f.sourceGraph # ""
    THEN <<Lit("--source-user and --source-graph are mutually exclusive")>>
    ELSE IF f.sourceUser # "" /\ f.targetGraph # ""
    THEN <<Lit("--target-graph cannot be used with --source-user; use --target-user instead")>>
    ELSE IF f.sourceGraph # "" /\ f.targetUser # ""
    THEN <<Lit("--target-user cannot be used with --source-graph; use --target-graph instead")>>
    ELSE <<>>

\* zep.CloneGraphRequest as the command fills it.
CloneRequest(f) ==
    IF f.sourceUser # ""
    THEN [fn |-> "Graph.Clone", SourceUserID |-> f.sourceUser,
          TargetUserID |-> IF f.targetUser # "" THEN f.targetUser ELSE Nil,
          SourceGraphID |-> Nil, TargetGraphID |-> Nil]
    ELSE [fn |-> "Graph.Clone", SourceUserID |-> Nil, TargetUserID |-> Nil,
          SourceGraphID |-> f.sourceGraph,
          TargetGraphID |-> IF f.targetGraph # "" THEN f.targetGraph ELSE Nil]

\* What c.Graph.Clone can answer: an error, or a response that names the
\* new graph, the new user, or neither.
CloneResponses ==
    {[state |-> "err", TaskID |-> Nil, GraphID |-> Nil, UserID |-> Nil]}
    \cup [state : {"ok"}, TaskID : {Nil, "task-1"}, GraphID : {Nil, "g2"},
          UserID : {Nil, "u2"}]

\* The flag checks and client.New().
CloneCheck ==
    /\ asyncPc = "start"
    /\ IF CloneFlagError(asyncIn) # <<>>
       THEN asyncPc' = "done" /\ asyncErr' = CloneFlagError(asyncIn)
       ELSE IF asyncIn.apiKey = ""
       THEN asyncPc' = "done" /\ asyncErr' = NoKeyError
       ELSE asyncPc' = "request" /\ UNCHANGED asyncErr
    /\ UNCHANGED <<asyncIn, asyncOut, asyncResp, apiLog>>
    /\ UNCHANGED <<waitVars, parseVars, cmdVars, dateVars, twVars, delVars, cfgVars, profVars>>

\* The output after a successful clone: the new id, then the response.
CloneReport(resp, printOk) ==
    /\ asyncOut' =
          LET told == IF resp.GraphID # Nil
                      THEN Info(asyncOut, asyncIn.quiet,
                                Line2("Cloned to graph: ", "GraphID", resp.GraphID))
                      ELSE IF resp.UserID # Nil
                      THEN Info(asyncOut, asyncIn.quiet,
                                Line2("Cloned to user: ", "UserID", resp.UserID))
                      ELSE asyncOut
          IN  IF printOk THEN Append(told, Response) ELSE told
    /\ asyncErr' = IF printOk THEN <<>> ELSE PrintError

\* c.Graph.Clone and the rest of the handler: the --wait flag is not read.
CloneCall ==
    /\ asyncPc = "request"
    /\ asyncPc' = "done"
    /\ apiLog' = Append(apiLog, CloneRequest(asyncIn))
    /\ \E resp \in CloneResponses, printOk \in BOOLEAN :
        /\ asyncResp' = resp
        /\ IF resp.state = "err"
           THEN /\ asyncErr' = <<Lit("cloning graph: "), Arg("err", "<error>")>>
                /\ UNCHANGED asyncOut
           ELSE CloneReport(resp, printOk)
    /\ UNCHANGED asyncIn
    /\ UNCHANGED <<waitVars, parseVars, cmdVars, dateVars, twVars, delVars, cfgVars, profVars>>

\* ---------------------------------------------------- thread add-messages
ThreadInputs ==
    [cmd : {"add-messages"}, file : {"", "m.json"}, stdin : BOOLEAN,
     batch : BOOLEAN, wait : BOOLEAN, quiet : BOOLEAN, apiKey : {"", "key"}]

InitThread ==
    /\ asyncIn \in ThreadInputs
    /\ asyncPc = "start"
    /\ asyncErr = <<>>
    /\ asyncOut = <<>>
    /\ asyncResp = NoResponse
    /\ apiLog = <<>>

\* Reading the messages (--file, else --stdin), parsing them, client.New().
ThreadPrepareError(f, readOk, parseOk) ==
    IF f.file # "" /\ ~readOk
    THEN <<Lit("reading file: "), Arg("err", "<error>")>>
    ELSE IF f.file = "" /\ f.stdin /\ ~readOk
    THEN <<Lit("reading stdin: "), Arg("err", "<error>")>>
    ELSE IF f.file = "" /\ ~f.stdin
    THEN <<Lit("either --file or --stdin is required")>>
    ELSE IF ~parseOk
    THEN <<Lit("parsing messages: "), Arg("err", "<error>")>>
    ELSE IF f.apiKey = ""
    THEN NoKeyError
    ELSE <<>>

ThreadPrepare ==
    /\ asyncPc = "start"
    /\ \E readOk \in BOOLEAN, parseOk \in BOOLEAN :
        LET err == ThreadPrepareError(asyncIn, readOk, parseOk)
        IN  /\ asyncErr' = err
            /\ asyncPc' = IF err = <<>> THEN "request" ELSE "done"
    /\ UNCHANGED <<asyncIn, asyncOut, asyncResp, apiLog>>
    /\ UNCHANGED <<waitVars, parseVars, cmdVars, dateVars, twVars, delVars, cfgVars, profVars>>

\* What AddMessagesBatch and AddMessages can answer.
ThreadResponses ==
    [state : {"ok", "err"}, TaskID : {Nil, "task-1"}, GraphID : {Nil},
     UserID : {Nil}]

\* The call of waitForTask as the command makes it.
WaitCall(taskID) ==
    [fn |-> "waitForTask", taskID |-> taskID, timeout |-> defaultTaskTimeout,
     pollInterval |-> defaultTaskPollInterval, result |-> "running"]

ApiCall(name) ==
    [fn |-> name, taskID |-> Nil, timeout |-> 0, pollInterval |-> 0,
     result |-> "returned"]

ShouldWait_IgnoreTaskID(f, resp) == f.wait

\* The condition under which the batch branch waits.
ShouldWait(f, resp) == f.wait /\ resp.TaskID # Nil

\* output.Print(resp) as the last statement of the handler.
PrintResponse(outp, printOk) ==
    /\ asyncOut' = IF printOk THEN Append(outp, Response) ELSE outp
    /\ asyncErr' = IF printOk THEN <<>> ELSE PrintError

\* The batch branch, from the request to the start of the wait or to the end.
ThreadBatch(resp, printOk) ==
    /\ asyncResp' = resp
    /\ IF resp.state = "err"
       THEN /\ asyncErr' = <<Lit("adding messages batch: "), Arg("err", "<error>")>>
            /\ apiLog' = Append(apiLog, ApiCall("Thread.AddMessagesBatch"))
            /\ asyncPc' = "done"
            /\ UNCHANGED asyncOut
       ELSE IF ShouldWait(asyncIn, resp)
       THEN /\ asyncOut' = Info(asyncOut, asyncIn.quiet,
                                Line2("Batch task started: ", "TaskID", resp.TaskID))
            /\ apiLog' = apiLog \o <<ApiCall("Thread.AddMessagesBatch"),
                                      WaitCall(resp.TaskID)>>
            /\ asyncPc' = "waiting"
            /\ UNCHANGED asyncErr
       ELSE /\ apiLog' = Append(apiLog, ApiCall("Thread.AddMessagesBatch"))
            /\ asyncPc' = "done"
            /\ PrintResponse(
                  IF resp.TaskID # Nil
                  THEN Info(asyncOut, asyncIn.quiet,
                            Line2("Batch task started: ", "TaskID", resp.TaskID))
                  ELSE asyncOut, printOk)

\* The plain branch: AddMessages, the message, the response.
ThreadPlain(resp, printOk) ==
    /\ asyncResp' = resp
    /\ apiLog' = Append(apiLog, ApiCall("Thread.AddMessages"))
    /\ asyncPc' = "done"
    /\ IF resp.state = "err"
       THEN /\ asyncErr' = <<Lit("adding messages: "), Arg("err", "<error>")>>
            /\ UNCHANGED asyncOut
       ELSE PrintResponse(Info(asyncOut, asyncIn.quiet,
                               Line("Added messages to thread")), printOk)

ThreadRequest ==
    /\ asyncPc = "request"
    /\ \E resp \in ThreadResponses, printOk \in BOOLEAN :
        IF asyncIn.batch THEN ThreadBatch(resp, printOk)
                         ELSE ThreadPlain(resp, printOk)
    /\ UNCHANGED asyncIn
    /\ UNCHANGED <<waitVars, parseVars, cmdVars, dateVars, twVars, delVars, cfgVars, profVars>>

\* The four ways waitForTask returns.
WaitOutcomes == {"success", "timeout", "taskfailed", "transport"}

WaitOutcomeError(outcome, taskID) ==
    IF outcome = "timeout"
    THEN <<Lit("timeout waiting for task "), Arg("taskID", taskID)>>
    ELSE IF outcome = "transport"
    THEN <<Lit("getting task: "), Arg("err", "<error>")>>
    ELSE IF outcome = "taskfailed"
    THEN <<Lit("task "), Arg("taskID", taskID), Lit(" failed: "),
           Arg("errMsg", "<message>")>>
    ELSE <<>>

\* waitForTask returns to the batch branch.
ThreadWaitReturn ==
    /\ asyncPc = "waiting"
    /\ asyncPc' = "done"
    /\ \E outcome \in WaitOutcomes, printOk \in BOOLEAN :
        /\ apiLog' = [apiLog EXCEPT ![Len(apiLog)].result = outcome]
        /\ IF outcome = "success"
           THEN PrintResponse(Info(asyncOut, asyncIn.quiet,
                                   Line("Batch processing completed")), printOk)
           ELSE /\ asyncErr' = WaitOutcomeError(outcome, asyncResp.TaskID)
                /\ UNCHANGED asyncOut
    /\ UNCHANGED <<asyncIn, asyncResp>>
    /\ UNCHANGED <<waitVars, parseVars, cmdVars, dateVars, twVars, delVars, cfgVars, profVars>>

\* ================================================= package config, client
MaxCalls == 4

\* What the config file can be: absent, unreadable, not YAML, or a config.
DiskFiles ==
    [state : {"missing", "unreadable", "malformed"}, cfg : {NilConfig}]
    \cup [state : {"ok"}, cfg : ConfigInputs]

ReadError == <<Lit("reading config file: "), Arg("err", "<error>")>>
ParseError == <<Lit("parsing config file: "), Arg("err", "<error>")>>

loadFromDisk(file) ==
    IF file.state = "missing" THEN [cfg |-> Config("", <<>>), err |-> <<>>]
    ELSE IF file.state = "unreadable" THEN [cfg |-> NilConfig, err |-> ReadError]
    ELSE IF file.state = "malformed" THEN [cfg |-> NilConfig, err |-> ParseError]
    ELSE [cfg |-> file.cfg, err |-> <<>>]

NoNew == [state |-> "none", key |-> "", err |-> <<>>, getOk |-> TRUE]

IdleConfig ==
    /\ cachedConfig = NilConfig
    /\ configOnce = FALSE
    /\ configErr = <<>>
    /\ diskFile = [state |-> "missing", cfg |-> NilConfig]
    /\ calls = <<>>
    /\ viperIn = [apiKey |-> "", profile |-> ""]
    /\ newOut = NoNew

\* A process starts with an empty cache and some config file.
InitConfig ==
    /\ cachedConfig = NilConfig
    /\ configOnce = FALSE
    /\ configErr = <<>>
    /\ diskFile \in DiskFiles
    /\ calls = <<>>
    /\ viperIn = [apiKey |-> "", profile |-> ""]
    /\ newOut = NoNew

Call(name, c, cfg, e, read) ==
    [fn |-> name, arg |-> c, cfg |-> cfg, err |-> e, read |-> read]

\* Load: configOnce.Do(loadFromDisk), then the cached pair.
Load ==
    /\ Len(calls) < MaxCalls
    /\ LET r == IF configOnce THEN [cfg |-> cachedConfig, err |-> configErr]
                ELSE loadFromDisk(diskFile)
       IN  /\ cachedConfig' = r.cfg
           /\ configErr' = r.err
           /\ calls' = Append(calls,
                   Call("Load", NilConfig, r.cfg, r.err, ~configOnce))
    /\ configOnce' = TRUE
    /\ UNCHANGED <<diskFile, viperIn, newOut>>
    /\ UNCHANGED <<waitVars, parseVars, cmdVars, dateVars, twVars, delVars, asyncVars, profVars>>

\* Reload: a new Once, nil cache, nil error, then Load.
Reload ==
    /\ Len(calls) < MaxCalls
    /\ LET r == loadFromDisk(diskFile)
       IN  /\ cachedConfig' = r.cfg
           /\ configErr' = r.err
           /\ calls' = Append(calls, Call("Reload", NilConfig, r.cfg, r.err, TRUE))
    /\ configOnce' = TRUE
    /\ UNCHANGED <<diskFile, viperIn, newOut>>
    /\ UNCHANGED <<waitVars, parseVars, cmdVars, dateVars, twVars, delVars, asyncVars, profVars>>

SaveError == <<Lit("writing config file: "), Arg("err", "<error>")>>

\* c.Save(): the file is written and cachedConfig becomes c, or a step
\* before that fails and nothing changes.
Save ==
    /\ Len(calls) < MaxCalls
    /\ \E c \in ConfigInputs, ok \in BOOLEAN :
        IF ok
        THEN /\ diskFile' = [state |-> "ok", cfg |-> c]
             /\ cachedConfig' = c
             /\ calls' = Append(calls, Call("Save", c, NilConfig, <<>>, FALSE))
        ELSE /\ calls' = Append(calls, Call("Save", c, NilConfig, SaveError, FALSE))
             /\ UNCHANGED <<diskFile, cachedConfig>>
    /\ UNCHANGED <<configOnce, configErr, viperIn, newOut>>
    /\ UNCHANGED <<waitVars, parseVars, cmdVars, dateVars, twVars, delVars, asyncVars, profVars>>

\* c.GetProfile(name): the place of the first profile of that name, 0 for nil.
GetProfile(cfg, name) ==
    IF \E i \in 1..Len(cfg.Profiles) : cfg.Profiles[i].Name = name
    THEN CHOOSE i \in 1..Len(cfg.Profiles) :
            /\ cfg.Profiles[i].Name = name
            /\ \A j \in 1..(i - 1) : cfg.Profiles[j].Name # name
    ELSE 0

GetCurrentProfile_NoOverride(cfg, v) == GetProfile(cfg, cfg.CurrentProfile)

\* c.GetCurrentProfile(): the profile setting wins over current-profile.
GetCurrentProfile(cfg, v) ==
    IF v.profile # "" THEN GetProfile(cfg, v.profile)
    ELSE GetProfile(cfg, cfg.CurrentProfile)

\* keyring.Get(profile): the stored key, "" when there is none or on error.
KeyringGet(keys, name, getOk) == IF getOk THEN keys[name] ELSE ""

\* GetAPIKey, given what Load returned and whether the keychain answers.
GetAPIKey(v, loaded, keys, getOk) ==
    IF v.apiKey # "" THEN v.apiKey
    ELSE IF loaded.err # <<>> THEN ""
    ELSE IF GetCurrentProfile(loaded.cfg, v) # 0
    THEN KeyringGet(keys,
            loaded.cfg.Profiles[GetCurrentProfile(loaded.cfg, v)].Name, getOk)
    ELSE ""

KeychainInputs == [ProfileNames -> {"", "key-1", "key-2"}]
ViperInputs == [apiKey : {"", "key-0"}, profile : {"", "dev", "prod"}]

\* A process starts with an empty cache, some config file, some settings
\* and some keychain.
InitKey ==
    /\ cachedConfig = NilConfig
    /\ configOnce = FALSE
    /\ configErr = <<>>
    /\ diskFile \in DiskFiles
    /\ calls = <<>>
    /\ viperIn \in ViperInputs
    /\ newOut = NoNew
    /\ delIn = [kind |-> "none"]
    /\ delPc = "idle"
    /\ delErr = <<>>
    /\ delOut = <<>>
    /\ requests = <<>>
    /\ cfgMem = NilConfig
    /\ cfgDisk = Config("", <<>>)
    /\ keychain \in KeychainInputs

\* client.New() when GetAPIKey does not call Load.
NewWithFlag(key) ==
    /\ newOut' = [state |-> "client", key |-> key, err |-> <<>>, getOk |-> TRUE]
    /\ UNCHANGED <<cachedConfig, configOnce, configErr, calls>>

\* client.New() when GetAPIKey calls Load, which returns r.
NewWithLoad(r, key, getOk) ==
    /\ cachedConfig' = r.cfg
    /\ configErr' = r.err
    /\ configOnce' = TRUE
    /\ calls' = Append(calls, Call("Load", NilConfig, r.cfg, r.err, ~configOnce))
    /\ newOut' =
          IF key = ""
          THEN [state |-> "error", key |-> "", err |-> NoKeyError, getOk |-> getOk]
          ELSE [state |-> "client", key |-> key, err |-> <<>>, getOk |-> getOk]

\* client.New(): the key GetAPIKey resolves, and a client unless it is empty.
ClientNew ==
    /\ newOut.state = "none"
    /\ \E getOk \in BOOLEAN :
        IF viperIn.apiKey # ""
        THEN NewWithFlag(viperIn.apiKey)
        ELSE IF configOnce
        THEN NewWithLoad([cfg |-> cachedConfig, err |-> configErr],
                GetAPIKey(viperIn, [cfg |-> cachedConfig, err |-> configErr],
                          keychain, getOk), getOk)
        ELSE NewWithLoad(loadFromDisk(diskFile),
                GetAPIKey(viperIn, loadFromDisk(diskFile), keychain, getOk),
                getOk)
    /\ UNCHANGED <<diskFile, viperIn>>
    /\ UNCHANGED <<waitVars, parseVars, cmdVars, dateVars, twVars, delVars, asyncVars, profVars>>

\* ===================================== config add/use/delete-profile
MaxCommands == 3

\* A string of the model's characters as a plain string.
RECURSIVE Str(_)
Str(chars) == IF chars = <<>> THEN "" ELSE Head(chars) \o Str(Tail(chars))

\* The command lines: every command names a profile; add-profile has
\* --api-key and may read the key, delete-profile has --force and may
\* read the answer.
ProfileInputs ==
    [kind : {"add"}, name : ProfileNames, apiKey : {"", "key-1"},
     stdin : {<<>>, <<" ", "\n">>, <<"k", "e", "y", "-", "2", "\n">>},
     isTerminal : BOOLEAN, force : {FALSE}, quiet : BOOLEAN]
    \cup [kind : {"use"}, name : ProfileNames, apiKey : {""}, stdin : {<<>>},
          isTerminal : {FALSE}, force : {FALSE}, quiet : BOOLEAN]
    \cup [kind : {"delete"}, name : ProfileNames, apiKey : {""},
          stdin : {<<"y", "\n">>, <<"n", "\n">>},
          isTerminal : {FALSE}, force : BOOLEAN, quiet : BOOLEAN]

NoCommand ==
    [kind |-> "none", name |-> "", apiKey |-> "", stdin |-> <<>>,
     isTerminal |-> FALSE, force |-> FALSE, quiet |-> FALSE]

IdleProfile ==
    /\ profIn = NoCommand
    /\ profPc = "idle"
    /\ profErr = <<>>
    /\ profOut = <<>>
    /\ profBefore = Config("", <<>>)
    /\ profCount = 0

\* No profiles, no current profile, an empty keychain, no command yet.
InitProfile ==
    /\ IdleProfile
    /\ delIn = [kind |-> "none"]
    /\ delPc = "idle"
    /\ delErr = <<>>
    /\ delOut = <<>>
    /\ requests = <<>>
    /\ cfgMem = NilConfig
    /\ cfgDisk = Config("", <<>>)
    /\ keychain = [n \in ProfileNames |-> ""]

\* A new zepctl process runs one of the three commands.
ProfStart ==
    /\ profPc \in {"idle", "done", "aborted"}
    /\ profCount < MaxCommands
    /\ profCount' = profCount + 1
    /\ profIn' \in ProfileInputs
    /\ profPc' = "load"
    /\ profErr' = <<>>
    /\ profOut' = <<>>
    /\ profBefore' = cfgDisk
    /\ cfgMem' = NilConfig
    /\ UNCHANGED <<cfgDisk, keychain>>
    /\ UNCHANGED <<delIn, delPc, delErr, delOut, requests>>
    /\ UNCHANGED <<waitVars, parseVars, cmdVars, dateVars, twVars, asyncVars, cfgVars>>

NotFound(name) == <<Lit("profile "), Arg("name", name), Lit(" not found")>>
AlreadyExists(name) ==
    <<Lit("profile "), Arg("name", name), Lit(" already exists")>>
LoadingError == <<Lit("loading config: "), Arg("err", "<error>")>>
SavingError == <<Lit("saving config: "), Arg("err", "<error>")>>

\* The step after a successful Load: add-profile refuses a name that
\* exists, use-profile and delete-profile one that does not.
AfterLoad(f, cfg) ==
    IF f.kind = "add"
    THEN IF GetProfile(cfg, f.name) # 0
         THEN [pc |-> "done", err |-> AlreadyExists(f.name)]
         ELSE [pc |-> "key", err |-> <<>>]
    ELSE IF GetProfile(cfg, f.name) = 0
    THEN [pc |-> "done", err |-> NotFound(f.name)]
    ELSE [pc |-> IF f.kind = "use" THEN "use" ELSE "confirm", err |-> <<>>]

\* config.Load() in a new process, and the check of the name.
ProfLoad ==
    /\ profPc = "load"
    /\ \E ok \in BOOLEAN :
        IF ~ok
        THEN /\ profErr' = LoadingError
             /\ profPc' = "done"
             /\ UNCHANGED cfgMem
        ELSE /\ cfgMem' = cfgDisk
             /\ profPc' = AfterLoad(profIn, cfgDisk).pc
             /\ profErr' = AfterLoad(profIn, cfgDisk).err
    /\ UNCHANGED <<profIn, profOut, profBefore, profCount, cfgDisk, keychain>>
    /\ UNCHANGED <<delIn, delPc, delErr, delOut, requests>>
    /\ UNCHANGED <<waitVars, parseVars, cmdVars, dateVars, twVars, asyncVars, cfgVars>>

\* use-profile: cfg.CurrentProfile = name, Save, the report.
ProfUse ==
    /\ profPc = "use"
    /\ profPc' = "done"
    /\ cfgMem' = [cfgMem EXCEPT !.CurrentProfile = profIn.name]
    /\ \E saveOk \in BOOLEAN :
        IF saveOk
        THEN /\ cfgDisk' = cfgMem'
             /\ profOut' = Info(profOut, profIn.quiet,
                                Line2("Switched to profile ", "name", profIn.name))
             /\ UNCHANGED profErr
        ELSE /\ profErr' = SavingError
             /\ UNCHANGED <<cfgDisk, profOut>>
    /\ UNCHANGED <<profIn, profBefore, profCount, keychain>>
    /\ UNCHANGED <<delIn, delPc, delErr, delOut, requests>>
    /\ UNCHANGED <<waitVars, parseVars, cmdVars, dateVars, twVars, asyncVars, cfgVars>>

\* The key add-profile works with: --api-key, or the trimmed line read at
\* the prompt.
EnteredKey(f) ==
    IF f.apiKey # "" THEN f.apiKey ELSE Str(TrimSpace(ReadString(f.stdin)))

KeyRejected_Never(apiKey) == FALSE

\* if apiKey == "" { return "API key cannot be empty" }
KeyRejected(apiKey) == apiKey = ""

KeyPrompt == [stream |-> "stdout", msg |-> <<Lit("API Key: ")>>]

\* add-profile up to keyring.Set: the key is read, checked and stored.
AddStoreKey(outp, readOk, setOk) ==
    /\ profOut' = outp
    /\ IF profIn.apiKey = "" /\ profIn.isTerminal /\ ~readOk
       THEN /\ profErr' = <<Lit("reading API key: "), Arg("err", "<error>")>>
            /\ profPc' = "done"
            /\ UNCHANGED keychain
       ELSE IF KeyRejected(EnteredKey(profIn))
       THEN /\ profErr' = <<Lit("API key cannot be empty")>>
            /\ profPc' = "done"
            /\ UNCHANGED keychain
       ELSE IF ~setOk
       THEN /\ profErr' = <<Lit("storing API key: "), Arg("err", "<error>")>>
            /\ profPc' = "done"
            /\ UNCHANGED keychain
       ELSE /\ keychain' = [keychain EXCEPT ![profIn.name] = EnteredKey(profIn)]
            /\ profPc' = "addsave"
            /\ UNCHANGED profErr

ProfAddKey ==
    /\ profPc = "key"
    /\ \E readOk \in BOOLEAN, setOk \in BOOLEAN :
        AddStoreKey(IF profIn.apiKey = "" THEN Append(profOut, KeyPrompt)
                    ELSE profOut, readOk, setOk)
    /\ UNCHANGED <<profIn, profBefore, profCount, cfgMem, cfgDisk>>
    /\ UNCHANGED <<delIn, delPc, delErr, delOut, requests>>
    /\ UNCHANGED <<waitVars, parseVars, cmdVars, dateVars, twVars, asyncVars, cfgVars>>

\* cfg with the new profile appended, current when there was none.
WithProfile(cfg, name) ==
    [cfg EXCEPT
        !.Profiles = Append(cfg.Profiles, Profile(name)),
        !.CurrentProfile = IF cfg.CurrentProfile = "" THEN name
                           ELSE cfg.CurrentProfile]

\* add-profile after keyring.Set: the profile is appended and cfg saved.
ProfAddSave ==
    /\ profPc = "addsave"
    /\ profPc' = "done"
    /\ cfgMem' = WithProfile(cfgMem, profIn.name)
    /\ \E saveOk \in BOOLEAN :
        IF saveOk
        THEN /\ cfgDisk' = cfgMem'
             /\ profOut' = Info(profOut, profIn.quiet,
                    [stream |-> "stderr",
                     msg |-> <<Lit("Added profile "), Arg("name", profIn.name),
                               Lit(" (API key stored in system keychain)")>>])
             /\ UNCHANGED profErr
        ELSE /\ profErr' = SavingError
             /\ UNCHANGED <<cfgDisk, profOut>>
    /\ UNCHANGED <<profIn, profBefore, profCount, keychain>>
    /\ UNCHANGED <<delIn, delPc, delErr, delOut, requests>>
    /\ UNCHANGED <<waitVars, parseVars, cmdVars, dateVars, twVars, asyncVars, cfgVars>>

\* delete-profile: the confirmation unless --force.
ProfConfirm ==
    /\ profPc = "confirm"
    /\ IF profIn.force
       THEN profPc' = "delsave" /\ UNCHANGED profOut
       ELSE IF Confirmed(profIn.stdin)
       THEN /\ profPc' = "delsave"
            /\ profOut' = Append(profOut, Prompt("profile", profIn.name))
       ELSE /\ profPc' = "aborted"
            /\ profOut' = Info(Append(profOut, Prompt("profile", profIn.name)),
                               profIn.quiet, Aborted)
    /\ UNCHANGED <<profIn, profErr, profBefore, profCount, cfgMem, cfgDisk,
                   keychain>>
    /\ UNCHANGED <<delIn, delPc, delErr, delOut, requests>>
    /\ UNCHANGED <<waitVars, parseVars, cmdVars, dateVars, twVars, asyncVars, cfgVars>>

\* delete-profile: the profile is taken out of cfg and cfg is saved.
ProfDelSave ==
    /\ profPc = "delsave"
    /\ cfgMem' = WithoutProfile(cfgMem, profIn.name)
    /\ \E saveOk \in BOOLEAN :
        IF saveOk
        THEN /\ cfgDisk' = cfgMem'
             /\ profPc' = "delkey"
             /\ UNCHANGED profErr
        ELSE /\ profErr' = SavingError
             /\ profPc' = "done"
             /\ UNCHANGED cfgDisk
    /\ UNCHANGED <<profIn, profOut, profBefore, profCount, keychain>>
    /\ UNCHANGED <<delIn, delPc, delErr, delOut, requests>>
    /\ UNCHANGED <<waitVars, parseVars, cmdVars, dateVars, twVars, asyncVars, cfgVars>>

\* delete-profile after Save: keyring.Delete, a warning when it fails, the
\* report.
ProfDelKey ==
    /\ profPc = "delkey"
    /\ profPc' = "done"
    /\ \E keyOk \in BOOLEAN :
        /\ keychain' = IF keyOk THEN [keychain EXCEPT ![profIn.name] = ""]
                       ELSE keychain
        /\ profOut' = Info(IF keyOk THEN profOut
                           ELSE Append(profOut, KeychainWarning),
                           profIn.quiet, Deleted("profile", profIn.name))
    /\ UNCHANGED <<profIn, profErr, profBefore, profCount, cfgMem, cfgDisk>>
    /\ UNCHANGED <<delIn, delPc, delErr, delOut, requests>>
    /\ UNCHANGED <<waitVars, parseVars, cmdVars, dateVars, twVars, asyncVars, cfgVars>>

\* ========================================================= specifications
IdleWait ==
    /\ timeout = 0
    /\ pollInterval = 0
    /\ now = 0
    /\ ctxDone = FALSE
    /\ tickReady = FALSE
    /\ nextTick = 0
    /\ pc = "idle"
    /\ result = "none"
    /\ errMsg = Nil
    /\ task = NoTask
    /\ hist = <<>>
    /\ fetches = 0
    /\ inflight = 0
    /\ lateFetch = FALSE
    /\ fetchTimes = <<>>

\* One waitForTask call.
Init == InitWait /\ IdleParse /\ IdleCmd /\ IdleDate /\ IdleTaskWait
    /\ IdleDelete /\ IdleAsync /\ IdleConfig /\ IdleProfile

Next ==
    \/ Advance
    \/ SelectDone
    \/ SelectTick
    \/ FetchReturn

Spec == Init /\ [][Next]_vars

\* One waitForTask call in which time keeps passing, every fetch returns,
\* and select, which picks among its ready cases at random, does not pass
\* over a closed ctx.Done() for ever.
SpecFair ==
    /\ Spec
    /\ WF_vars(Advance)
    /\ WF_vars(FetchReturn)
    /\ SF_vars(SelectDone)

\* One waitForTask call with instantaneous fetches.
NextInstant ==
    \/ AdvanceInstant
    \/ SelectDone
    \/ SelectTick
    \/ FetchReturn

SpecInstant == Init /\ [][NextInstant]_vars

\* The parsers applied to the parser inputs.
InitParse == IdleWait /\ IdleParse /\ IdleCmd /\ IdleDate /\ IdleTaskWait
    /\ IdleDelete /\ IdleAsync /\ IdleConfig /\ IdleProfile

NextParse ==
    \/ CallParseComparisonOperator
    \/ CallParsePropertyFilter
    \/ CallParseDateFilter

SpecParse == InitParse /\ [][NextParse]_vars

\* One graph search command.
InitCmd == IdleWait /\ IdleParse /\ InitSearch /\ IdleDate /\ IdleTaskWait
    /\ IdleDelete /\ IdleAsync /\ IdleConfig /\ IdleProfile

NextCmd ==
    \/ CmdCheckTarget
    \/ CmdNewClient
    \/ CmdBuildFilters
    \/ CmdSearch

SpecCmd == InitCmd /\ [][NextCmd]_vars

\* parseDateFilter called up to MaxDateCalls times on one SearchFilters.
InitDate == IdleWait /\ IdleParse /\ IdleCmd /\ IdleDate /\ IdleTaskWait
    /\ IdleDelete /\ IdleAsync /\ IdleConfig /\ IdleProfile

NextDate == AddDate

SpecDate == InitDate /\ [][NextDate]_vars

\* One task wait command.
InitTaskWaitCmd == InitTaskWait /\ IdleParse /\ IdleCmd /\ IdleDate
    /\ IdleDelete /\ IdleAsync /\ IdleConfig /\ IdleProfile

NextTaskWait ==
    \/ TaskWaitStart
    \/ AdvanceRunning
    \/ SelectDone
    \/ SelectTick
    \/ FetchReturn
    \/ TaskWaitReturn

SpecTaskWait == InitTaskWaitCmd /\ [][NextTaskWait]_vars

\* One delete command.
InitDeleteCmd ==
    /\ IdleWait /\ IdleParse /\ IdleCmd /\ IdleDate /\ IdleTaskWait
    /\ InitDelete /\ IdleAsync /\ IdleConfig /\ IdleProfile

NextDelete ==
    \/ DelLoad
    \/ DelConfirm
    \/ DelCallApi
    \/ DelProfile

SpecDelete == InitDeleteCmd /\ [][NextDelete]_vars

\* One graph clone command.
InitCloneCmd ==
    /\ IdleWait /\ IdleParse /\ IdleCmd /\ IdleDate /\ IdleTaskWait
    /\ IdleDelete /\ InitClone /\ IdleConfig /\ IdleProfile

NextClone ==
    \/ CloneCheck
    \/ CloneCall

SpecClone == InitCloneCmd /\ [][NextClone]_vars

\* One thread add-messages command.
InitThreadCmd ==
    /\ IdleWait /\ IdleParse /\ IdleCmd /\ IdleDate /\ IdleTaskWait
    /\ IdleDelete /\ InitThread /\ IdleConfig /\ IdleProfile

NextThread ==
    \/ ThreadPrepare
    \/ ThreadRequest
    \/ ThreadWaitReturn

SpecThread == InitThreadCmd /\ [][NextThread]_vars

\* Up to MaxCalls calls of Load, Reload and Save in one process.
InitConfigCache ==
    /\ IdleWait /\ IdleParse /\ IdleCmd /\ IdleDate /\ IdleTaskWait
    /\ IdleDelete /\ IdleAsync /\ InitConfig /\ IdleProfile

NextConfig ==
    \/ Load
    \/ Reload
    \/ Save

SpecConfig == InitConfigCache /\ [][NextConfig]_vars

\* client.New() in a process that may have loaded the config before.
InitKeyCmd ==
    /\ IdleWait /\ IdleParse /\ IdleCmd /\ IdleDate /\ IdleTaskWait
    /\ IdleAsync /\ InitKey /\ IdleProfile

NextKey ==
    \/ Load
    \/ ClientNew

SpecKey == InitKeyCmd /\ [][NextKey]_vars

\* Up to MaxCommands profile commands, one process after the other.
InitProfileCmds ==
    /\ IdleWait /\ IdleParse /\ IdleCmd /\ IdleDate /\ IdleTaskWait
    /\ IdleAsync /\ IdleConfig /\ InitProfile

NextProfile ==
    \/ ProfStart
    \/ ProfLoad
    \/ ProfUse
    \/ ProfAddKey
    \/ ProfAddSave
    \/ ProfConfirm
    \/ ProfDelSave
    \/ ProfDelKey

SpecProfile == InitProfileCmds /\ [][NextProfile]_vars

\* parseDateFilters, or parseDateFilter, applied once to a set.
InitDateListCmd ==
    /\ IdleWait /\ IdleParse /\ IdleCmd /\ InitDateList /\ IdleTaskWait
    /\ IdleDelete /\ IdleAsync /\ IdleConfig /\ IdleProfile

NextDateList ==
    \/ CallParseDateFilters
    \/ CallParseDateFilter

SpecDateList == InitDateListCmd /\ [][NextDateList]_vars

\* ================================================================ claims
NonTerminal == {"", "pending", "processing", "cancelled"}

\* The step in which a c.Task.Get call returns.
FetchReturns == pc = "fetching" /\ Len(hist') = Len(hist) + 1

\* C1: when a fetch returns a task record, status "completed" ends the wait
\* with success, status "failed" ends it with a task failure carrying the
\* task's error message ("unknown error" when the task has no error or no
\* message), and every other status (pending, processing, an unrecognized
\* string, a missing status) gives no result and goes back to the select.
C1_FetchDecides ==
    [][(FetchReturns /\ hist'[Len(hist')] # "<error>") =>
         /\ (task'.Status = "completed") =>
                (pc' = "done" /\ result' = "success")
         /\ (task'.Status = "failed") =>
                /\ pc' = "done"
                /\ result' = "taskfailed"
                /\ errMsg' = IF task'.Error.isNil \/ task'.Error.Message = Nil
                             THEN "unknown error"
                             ELSE task'.Error.Message
         /\ (task'.Status \notin {"completed", "failed"}) =>
                (pc' = "select" /\ result' = "none")]_vars

\* A wait that saw an unrecognized status and a missing status, kept polling,
\* and then ended on a failed task without a message.
C1_Witness ==
    /\ pc = "done"
    /\ Len(hist) = 3
    /\ hist[1] = "cancelled"
    /\ hist[2] = ""
    /\ result = "taskfailed"
    /\ errMsg = "unknown error"

\* C2: a wait on which the deadline fired before any fetch observed a
\* terminal status returns the timeout failure: not success, not a task
\* failure and not a transport error.
C2_DeadlineGivesTimeout ==
    (pc = "done" /\ ctxDone) => result = "timeout"

\* C3: once the deadline has fired no fetch of the task status is started.
C3_NoFetchAfterDeadline == ~lateFetch

\* C4: waitForTask returns success only if the last fetch returned status
\* "completed", and a wait all of whose fetches returned non-terminal
\* statuses ends with the timeout failure.
C4_SuccessOnlyIfCompleted ==
    /\ result = "success" =>
          /\ Len(hist) >= 1
          /\ hist[Len(hist)] = "completed"
          /\ task.Status = "completed"
    /\ (pc = "done" /\ \A i \in 1..Len(hist) : hist[i] \in NonTerminal) =>
          result = "timeout"

\* A finished wait whose accessor answered "pending" twice.
C4_Witness ==
    /\ pc = "done"
    /\ hist = <<"pending", "pending">>
    /\ result = "timeout"

\* C5: as soon as a fetch has returned an error the wait is over with a
\* transport error, and that fetch is the last one: none is started after it.
C5_FetchErrorEndsWait ==
    (\E i \in 1..Len(hist) : hist[i] = "<error>") =>
        /\ pc = "done"
        /\ result = "transport"
        /\ hist[Len(hist)] = "<error>"
        /\ \A i \in 1..(Len(hist) - 1) : hist[i] # "<error>"
        /\ fetches = Len(hist)

\* A wait whose second fetch failed.
C5_Witness ==
    /\ hist = <<"processing", "<error>">>
    /\ result = "transport"
    /\ fetches = 2

\* C6 (instantaneous fetches): when the timeout is longer than k poll
\* intervals, the deadline cannot end the wait before the k-th fetch, and a
\* wait whose k-th fetch is the first to return "completed" returns success
\* after exactly k fetches, at time k * pollInterval, before the deadline.
C6_SuccessAfterKPolls ==
    \A k \in 1..MaxTime :
        (timeout > k * pollInterval) =>
            /\ (pc = "done" /\ result = "timeout") => Len(hist) >= k
            /\ (pc = "done" /\ Len(hist) = k /\ hist[k] = "completed") =>
                  /\ result = "success"
                  /\ fetches = k
                  /\ now = k * pollInterval
                  /\ now < timeout
                  /\ ~ctxDone

\* The spec's case: processing, then completed, gives success after 2 polls.
C6_Witness ==
    /\ pc = "done"
    /\ hist = <<"processing", "completed">>
    /\ timeout > 2 * pollInterval
    /\ result = "success"
    /\ fetches = 2

\* C7: at most one fetch is in flight, and a fetch is in flight exactly
\* while waitForTask is blocked in c.Task.Get.
C7_OneFetchInFlight ==
    /\ inflight <= 1
    /\ (inflight = 1) <=> (pc = "fetching")
    /\ fetches = Len(hist) + inflight

\* The second fetch of a wait is in flight, the first has returned.
C7_Witness ==
    /\ inflight = 1
    /\ fetches = 2
    /\ Len(hist) = 1

\* C8: in the graph search command, Search is called only when every
\* --property-filter and --date-filter string parses, with all of them in the
\* request; and a command that got as far as the filters while one of them
\* does not parse returns the parse error of the first such filter (property
\* filters first) and has not called Search.
PropertyFilterParses(str) == parsePropertyFilter(str).err = ""
DateFilterParses(str) == parseDateFilter(str, EmptyFilters).err = ""
AllFiltersParse ==
    /\ \A i \in 1..Len(flags.propertyFilters) :
          PropertyFilterParses(flags.propertyFilters[i])
    /\ \A i \in 1..Len(flags.dateFilters) :
          DateFilterParses(flags.dateFilters[i])
FirstParseError ==
    IF \E i \in 1..Len(flags.propertyFilters) :
          ~PropertyFilterParses(flags.propertyFilters[i])
    THEN LET i == CHOOSE i \in 1..Len(flags.propertyFilters) :
                    /\ ~PropertyFilterParses(flags.propertyFilters[i])
                    /\ \A j \in 1..(i - 1) :
                          PropertyFilterParses(flags.propertyFilters[j])
         IN  parsePropertyFilter(flags.propertyFilters[i]).err
    ELSE LET i == CHOOSE i \in 1..Len(flags.dateFilters) :
                    /\ ~DateFilterParses(flags.dateFilters[i])
                    /\ \A j \in 1..(i - 1) :
                          DateFilterParses(flags.dateFilters[j])
         IN  parseDateFilter(flags.dateFilters[i], EmptyFilters).err
C8_FailFast ==
    cmdPc # "idle" =>
        /\ searchCalls > 0 =>
              /\ AllFiltersParse
              /\ Len(sent.SearchFilters.PropertyFilters)
                    = Len(flags.propertyFilters)
              /\ Len(sent.SearchFilters.CreatedAt)
                    + Len(sent.SearchFilters.ValidAt)
                    + Len(sent.SearchFilters.InvalidAt)
                    + Len(sent.SearchFilters.ExpiredAt)
                    = Len(flags.dateFilters)
        /\ (~AllFiltersParse /\ cmdPc \in {"search", "done"}
                /\ (flags.user # "" \/ flags.graph # "") /\ flags.apiKey # "") =>
              /\ cmdPc = "done"
              /\ cmdErr = FirstParseError
              /\ cmdErr \in {"invalid property filter format",
                             "invalid operator in property filter",
                             "invalid date filter format",
                             "invalid operator in date filter",
                             "unknown date field"}
              /\ searchCalls = 0

\* A command whose property filter parsed and whose second date filter names
\* an unknown field has returned that error without searching.
C8_Witness ==
    /\ cmdPc = "done"
    /\ Len(flags.propertyFilters) = 1
    /\ PropertyFilterParses(flags.propertyFilters[1])
    /\ Len(flags.dateFilters) = 2
    /\ DateFilterParses(flags.dateFilters[1])
    /\ cmdErr = "unknown date field"
    /\ searchCalls = 0

\* C9: parseComparisonOperator maps = and == to Equals, <> and != to
\* NotEquals, > to GreaterThan, < to LessThan, >= to GreaterThanEqual, <= to
\* LessThanEqual, IS NULL to IsNull, IS NOT NULL to IsNotNull, and fails
\* for every other token, the empty string, LIKE and IN among them.
C9_OperatorTable ==
    fn = "parseComparisonOperator" =>
        /\ arg \in {<<"=">>, <<"=", "=">>} =>
              opOut = [err |-> "", op |-> "Equals"]
        /\ arg \in {<<"<", ">">>, <<"!", "=">>} =>
              opOut = [err |-> "", op |-> "NotEquals"]
        /\ arg = <<">">> => opOut = [err |-> "", op |-> "GreaterThan"]
        /\ arg = <<"<">> => opOut = [err |-> "", op |-> "LessThan"]
        /\ arg = <<">", "=">> => opOut = [err |-> "", op |-> "GreaterThanEqual"]
        /\ arg = <<"<", "=">> => opOut = [err |-> "", op |-> "LessThanEqual"]
        /\ arg = <<"I", "S", " ", "N", "U", "L", "L">> =>
              opOut = [err |-> "", op |-> "IsNull"]
        /\ arg = <<"I", "S", " ", "N", "O", "T", " ", "N", "U", "L", "L">> =>
              opOut = [err |-> "", op |-> "IsNotNull"]
        /\ arg \in OtherOperatorTokens =>
              opOut = [err |-> "unknown operator", op |-> ""]
        /\ opOut.err = "" => arg \in KnownOperatorTokens

\* parseComparisonOperator was applied to != and gave NotEquals.
C9_Witness ==
    /\ fn = "parseComparisonOperator"
    /\ arg = <<"!", "=">>
    /\ opOut = [err |-> "", op |-> "NotEquals"]

\* C10: for name:op:value with a comparison operator, the value is typed in
\* this priority: true and false are booleans; null and the empty string are
\* nil; a token ParseInt accepts is an int64 (30 is the integer 30, not a
\* float); a token only ParseFloat accepts is a float64 (4.5); anything else
\* is the token itself as a string.
ComparisonTokens ==
    {<<"=">>, <<"=", "=">>, <<"<", ">">>, <<"!", "=">>, <<">">>, <<"<">>,
     <<">", "=">>, <<"<", "=">>}
C10_ValueTypePriority ==
    fn = "parsePropertyFilter" =>
        \A n \in NameInputs, o \in ComparisonTokens, v \in ValueInputs :
            arg = Join3(n, o, v) =>
                /\ pfOut.err = ""
                /\ v = <<"t", "r", "u", "e">> =>
                      pfOut.pf.PropertyValue = [type |-> "bool", text |-> v]
                /\ v = <<"f", "a", "l", "s", "e">> =>
                      pfOut.pf.PropertyValue = [type |-> "bool", text |-> v]
                /\ v \in NullTokens =>
                      pfOut.pf.PropertyValue = [type |-> "nil", text |-> <<>>]
                /\ v \in IntTokens => pfOut.pf.PropertyValue.type = "int64"
                /\ v \in {<<"3", "0">>, <<"+", "3", "0">>} =>
                      pfOut.pf.PropertyValue.text = <<"3", "0">>
                /\ v \in FloatTokens =>
                      pfOut.pf.PropertyValue = [type |-> "float64", text |-> v]
                /\ v \in StringTokens =>
                      pfOut.pf.PropertyValue = [type |-> "string", text |-> v]

\* parsePropertyFilter was applied to age:>:30 and gave the integer 30.
C10_Witness ==
    /\ fn = "parsePropertyFilter"
    /\ arg = <<"a", "g", "e", ":", ">", ":", "3", "0">>
    /\ pfOut.err = ""
    /\ pfOut.pf.ComparisonOperator = "GreaterThan"
    /\ pfOut.pf.PropertyValue = [type |-> "int64", text |-> <<"3", "0">>]

\* C11: parsePropertyFilter fails whenever the property name is empty, in the
\* ":IS NULL" and ":IS NOT NULL" forms and in the three-part form (":=:5"):
\* every PropertyFilter it returns has a non-empty PropertyName.
C11_NameNonEmpty ==
    (fn = "parsePropertyFilter" /\ pfOut.err = "") =>
        pfOut.pf.PropertyName # <<>>

\* C12: in every PropertyFilter parsePropertyFilter returns, the value is
\* absent (a nil PropertyValue) exactly when the operator is IsNull or
\* IsNotNull: a filter with a comparison operator carries a value, also for
\* the value tokens "null" and "".
C12_ValueAbsentIffNullOperator ==
    (fn = "parsePropertyFilter" /\ pfOut.err = "") =>
        (pfOut.pf.PropertyValue = [type |-> "nil", text |-> <<>>]
            <=> pfOut.pf.ComparisonOperator \in {"IsNull", "IsNotNull"})

\* C13: parsePropertyFilter looks for ":IS NOT NULL" first and for ":IS NULL"
\* second, before any splitting at colons.  An input with a marker gives the
\* text before the first occurrence of that marker as the name (colons
\* included), IsNotNull or IsNull, and no value, whatever follows the marker;
\* when that text is empty the call fails.  Only inputs with neither marker
\* are parsed as name:op:value, and these never give IsNull or IsNotNull.
MarkerTable ==
    {[filter |-> <<"a", ":", "I", "S", " ", "N", "U", "L", "L">>,
      name |-> <<"a">>, op |-> "IsNull"],
     [filter |-> <<"a", ":", "I", "S", " ", "N", "O", "T", " ", "N", "U", "L", "L">>,
      name |-> <<"a">>, op |-> "IsNotNull"],
     [filter |-> <<"a", ":", "b", ":", "I", "S", " ", "N", "U", "L", "L">>,
      name |-> <<"a", ":", "b">>, op |-> "IsNull"],
     [filter |-> <<"a", ":", "=", ":", "3", ":", "I", "S", " ", "N", "O", "T", " ", "N", "U", "L", "L">>,
      name |-> <<"a", ":", "=", ":", "3">>, op |-> "IsNotNull"],
     [filter |-> <<"a", ":", "I", "S", " ", "N", "U", "L", "L", ":", "=", ":", "3">>,
      name |-> <<"a">>, op |-> "IsNull"],
     [filter |-> <<"a", ":", "I", "S", " ", "N", "O", "T", " ", "N", "U", "L", "L", "x">>,
      name |-> <<"a">>, op |-> "IsNotNull"],
     [filter |-> <<"a", ":", "I", "S", " ", "N", "U", "L", "L", ":", "I", "S", " ", "N", "O", "T", " ", "N", "U", "L", "L">>,
      name |-> <<"a", ":", "I", "S", " ", "N", "U", "L", "L">>, op |-> "IsNotNull"],
     [filter |-> <<"a", ":", "I", "S", " ", "N", "O", "T", " ", "N", "U", "L", "L", ":", "I", "S", " ", "N", "U", "L", "L">>,
      name |-> <<"a">>, op |-> "IsNotNull"],
     [filter |-> <<":", "I", "S", " ", "N", "U", "L", "L", ":", "I", "S", " ", "N", "O", "T", " ", "N", "U", "L", "L">>,
      name |-> <<":", "I", "S", " ", "N", "U", "L", "L">>, op |-> "IsNotNull"],
     [filter |-> <<"a", ":", "I", "S", " ", "N", "O", "T", " ", "N", "U", "L", "L", ":", "I", "S", " ", "N", "O", "T", " ", "N", "U", "L", "L">>,
      name |-> <<"a">>, op |-> "IsNotNull"],
     [filter |-> <<"a", ":", "I", "S", " ", "N", "U", "L", "L", ":", "b", ":", "I", "S", " ", "N", "U", "L", "L">>,
      name |-> <<"a">>, op |-> "IsNull"]}
EmptyNameMarkerInputs ==
    {<<":", "I", "S", " ", "N", "U", "L", "L">>,
     <<":", "I", "S", " ", "N", "O", "T", " ", "N", "U", "L", "L">>}
C13_MarkersFirst ==
    fn = "parsePropertyFilter" =>
        /\ \A e \in MarkerTable :
              arg = e.filter =>
                  pfOut = [err |-> "",
                           pf |-> [PropertyName |-> e.name,
                                   ComparisonOperator |-> e.op,
                                   PropertyValue |-> [type |-> "nil", text |-> <<>>]]]
        /\ arg \in EmptyNameMarkerInputs =>
              pfOut.err = "invalid property filter format"
        /\ arg \in MarkerInputs =>
              arg \in {e.filter : e \in MarkerTable} \cup EmptyNameMarkerInputs
        /\ arg \in ThreePartInputs \cup ShortInputs =>
              pfOut.pf.ComparisonOperator \notin {"IsNull", "IsNotNull"}

\* parsePropertyFilter was applied to a:IS NULL:IS NOT NULL and gave the name
\* a:IS NULL with IsNotNull.
C13_Witness ==
    /\ fn = "parsePropertyFilter"
    /\ arg = <<"a", ":", "I", "S", " ", "N", "U", "L", "L", ":", "I", "S", " ", "N", "O", "T", " ", "N", "U", "L", "L">>
    /\ pfOut.err = ""
    /\ pfOut.pf.PropertyName = <<"a", ":", "I", "S", " ", "N", "U", "L", "L">>
    /\ pfOut.pf.ComparisonOperator = "IsNotNull"

\* C14: for an input with neither marker, parsePropertyFilter and
\* parseDateFilter fail with the format error when the input has fewer than
\* two colons (status, status:=, created_at:>); with two colons or more the
\* token between the first and the second colon is the operator: a token
\* parseComparisonOperator does not know gives the invalid-operator error
\* (status:LIKE:test), and one it knows is never reported as a format or
\* operator error and gives the filter the operator of that token.
ExpectedOperator(tok) ==
    CASE tok \in {<<"=">>, <<"=", "=">>} -> "Equals"
      [] tok \in {<<"<", ">">>, <<"!", "=">>} -> "NotEquals"
      [] tok = <<">">> -> "GreaterThan"
      [] tok = <<"<">> -> "LessThan"
      [] tok = <<">", "=">> -> "GreaterThanEqual"
      [] tok = <<"<", "=">> -> "LessThanEqual"
      [] OTHER -> "?"
\* The date filters of dateSet, group after group and field after field.
AllGroups ==
    dateSet.CreatedAt \o dateSet.ValidAt \o dateSet.InvalidAt
        \o dateSet.ExpiredAt
C14_PropertyParts ==
    fn = "parsePropertyFilter" =>
        /\ arg \in ShortInputs =>
              pfOut.err = "invalid property filter format"
        /\ \A n \in NameInputs, v \in ValueInputs :
              /\ \A o \in OtherOperatorTokens :
                    arg = Join3(n, o, v) =>
                        pfOut.err = "invalid operator in property filter"
              /\ \A o \in ComparisonTokens :
                    arg = Join3(n, o, v) =>
                        /\ pfOut.err = ""
                        /\ pfOut.pf.ComparisonOperator = ExpectedOperator(o)
C14_DateParts ==
    fn = "parseDateFilter" =>
        /\ arg \in ShortDateInputs =>
              (dateErr = "invalid date filter format" /\ AllGroups = <<>>)
        /\ \A f \in FieldInputs, d \in DateTokens :
              /\ \A o \in OtherOperatorTokens :
                    arg = Join3(f, o, d) =>
                        /\ dateErr = "invalid operator in date filter"
                        /\ AllGroups = <<>>
              /\ \A o \in ComparisonTokens :
                    arg = Join3(f, o, d) =>
                        /\ dateErr \in {"", "unknown date field"}
                        /\ dateErr = "" =>
                              /\ Len(AllGroups) = 1
                              /\ Len(AllGroups[1]) = 1
                              /\ AllGroups[1][1].ComparisonOperator
                                    = ExpectedOperator(o)
C14_PartsAndOperator == C14_PropertyParts /\ C14_DateParts

\* parseDateFilter was applied to created_at:> and gave the format error.
C14_Witness ==
    /\ fn = "parseDateFilter"
    /\ arg = <<"c", "r", "e", "a", "t", "e", "d", "_", "a", "t", ":", ">">>
    /\ dateErr = "invalid date filter format"

\* C15: every successful parseDateFilter call appends one new group holding
\* one DateFilter at the end of the named field's groups and changes nothing
\* else; a failed call changes nothing.  So after any calls the groups of a
\* field are, in call order, the singleton groups of the successful calls
\* that named it: n such calls give n groups of length 1.
NoDate == [isNil |-> TRUE, text |-> <<>>]
SeqTable ==
    {[filter |-> <<"c", "r", "e", "a", "t", "e", "d", "_", "a", "t", ":", ">", ":", "2", "0", "2", "4">>,
      field |-> "CreatedAt",
      df |-> [ComparisonOperator |-> "GreaterThan", Date |-> [isNil |-> FALSE, text |-> <<"2", "0", "2", "4">>]]],
     [filter |-> <<"c", "r", "e", "a", "t", "e", "d", "_", "a", "t", ":", "<", ":", "2", "0", "2", "5">>,
      field |-> "CreatedAt",
      df |-> [ComparisonOperator |-> "LessThan", Date |-> [isNil |-> FALSE, text |-> <<"2", "0", "2", "5">>]]],
     [filter |-> <<"c", "r", "e", "a", "t", "e", "d", "_", "a", "t", ":", "I", "S", " ", "N", "U", "L", "L">>,
      field |-> "CreatedAt",
      df |-> [ComparisonOperator |-> "IsNull", Date |-> NoDate]],
     [filter |-> <<"v", "a", "l", "i", "d", "_", "a", "t", ":", "=", ":", "2", "0", "2", "4">>,
      field |-> "ValidAt",
      df |-> [ComparisonOperator |-> "Equals", Date |-> [isNil |-> FALSE, text |-> <<"2", "0", "2", "4">>]]],
     [filter |-> <<"v", "a", "l", "i", "d", "_", "a", "t", ":", "I", "S", " ", "N", "O", "T", " ", "N", "U", "L", "L">>,
      field |-> "ValidAt",
      df |-> [ComparisonOperator |-> "IsNotNull", Date |-> NoDate]],
     [filter |-> <<"i", "n", "v", "a", "l", "i", "d", "_", "a", "t", ":", ">", "=", ":", "2", "0", "2", "4">>,
      field |-> "InvalidAt",
      df |-> [ComparisonOperator |-> "GreaterThanEqual", Date |-> [isNil |-> FALSE, text |-> <<"2", "0", "2", "4">>]]],
     [filter |-> <<"e", "x", "p", "i", "r", "e", "d", "_", "a", "t", ":", "<", ">", ":", "2", "0", "2", "4">>,
      field |-> "ExpiredAt",
      df |-> [ComparisonOperator |-> "NotEquals", Date |-> [isNil |-> FALSE, text |-> <<"2", "0", "2", "4">>]]]}
Succeeds(filter) == \E e \in SeqTable : e.filter = filter
Entry(filter) == CHOOSE e \in SeqTable : e.filter = filter
ExpectedGroups(field) ==
    LET sel == SelectSeq(dateLog,
                         LAMBDA c : Succeeds(c.filter)
                                    /\ Entry(c.filter).field = field)
    IN  [i \in 1..Len(sel) |-> <<Entry(sel[i].filter).df>>]
C15_OneGroupPerCall ==
    /\ \A i \in 1..Len(dateLog) :
          (dateLog[i].err = "") <=> Succeeds(dateLog[i].filter)
    /\ dateSet.CreatedAt = ExpectedGroups("CreatedAt")
    /\ dateSet.ValidAt = ExpectedGroups("ValidAt")
    /\ dateSet.InvalidAt = ExpectedGroups("InvalidAt")
    /\ dateSet.ExpiredAt = ExpectedGroups("ExpiredAt")
    /\ \A i \in 1..Len(AllGroups) : Len(AllGroups[i]) = 1

\* Three successful calls on created_at left three groups of one filter.
C15_Witness ==
    /\ Len(dateLog) = 3
    /\ \A i \in 1..3 : dateLog[i].err = ""
    /\ Len(dateSet.CreatedAt) = 3
    /\ \A i \in 1..3 : Len(dateSet.CreatedAt[i]) = 1
    /\ dateSet.CreatedAt[1] # dateSet.CreatedAt[2]

\* C16 as claimed: whenever the first part is not one of created_at,
\* valid_at, invalid_at, expired_at, parseDateFilter fails with the
\* unknown-field error, in the three-part form and in the IS NULL forms,
\* whatever the operator and date tokens are.
AllOperatorTokens == ComparisonTokens \cup OtherOperatorTokens
C16_UnknownFieldWhatever ==
    fn = "parseDateFilter" =>
        \A f \in OtherFields :
            /\ \A o \in AllOperatorTokens, d \in DateTokens :
                  arg = Join3(f, o, d) => dateErr = "unknown date field"
            /\ arg \in {f \o IsNullMarker, f \o IsNotNullMarker} =>
                  dateErr = "unknown date field"

\* C16 as amended: such a filter always fails and adds nothing; the error
\* is the unknown-field error when the filter is well-formed up to the field
\* (three parts with an operator token parseComparisonOperator knows, or an
\* IS NULL form with a non-empty first part), the invalid-operator error for
\* any other operator token, and the format error for an IS NULL form with
\* an empty first part.  A filter whose first part is one of the four names
\* never gives the unknown-field error.
C16_UnknownField ==
    fn = "parseDateFilter" =>
        /\ \A f \in OtherFields :
            /\ \A o \in AllOperatorTokens, d \in DateTokens :
                  arg = Join3(f, o, d) =>
                      /\ dateErr = IF o \in ComparisonTokens
                                   THEN "unknown date field"
                                   ELSE "invalid operator in date filter"
                      /\ AllGroups = <<>>
            /\ arg \in {f \o IsNullMarker, f \o IsNotNullMarker} =>
                  /\ dateErr = IF f = <<>>
                               THEN "invalid date filter format"
                               ELSE "unknown date field"
                  /\ AllGroups = <<>>
        /\ \A f \in KnownFields :
            /\ \A o \in AllOperatorTokens, d \in DateTokens :
                  arg = Join3(f, o, d) => dateErr # "unknown date field"
            /\ arg \in {f \o IsNullMarker, f \o IsNotNullMarker} =>
                  dateErr = ""

\* parseDateFilter was applied to unknown_field:>:2024-01-01 and gave the
\* unknown-field error.
C16_Witness ==
    /\ fn = "parseDateFilter"
    /\ arg = <<"u", "n", "k", "n", "o", "w", "n", "_", "f", "i", "e", "l", "d", ":", ">", ":", "2", "0", "2", "4", "-", "0", "1", "-", "0", "1">>
    /\ dateErr = "unknown date field"
    /\ AllGroups = <<>>

\* C17: the DateFilter a successful parseDateFilter call appends has no date
\* exactly when its operator is IsNull or IsNotNull: the IS NULL forms
\* append a filter with a nil date, and a three-part filter appends one
\* whose date is the date token, the empty token included.
C17_DateAbsentIffNullOperator ==
    (fn = "parseDateFilter" /\ dateErr = "") =>
        /\ Len(AllGroups) = 1
        /\ Len(AllGroups[1]) = 1
        /\ AllGroups[1][1].Date.isNil
              <=> AllGroups[1][1].ComparisonOperator \in {"IsNull", "IsNotNull"}
        /\ \A f \in KnownFields :
            /\ arg = f \o IsNullMarker =>
                  AllGroups[1][1] = [ComparisonOperator |-> "IsNull",
                                     Date |-> NoDate]
            /\ arg = f \o IsNotNullMarker =>
                  AllGroups[1][1] = [ComparisonOperator |-> "IsNotNull",
                                     Date |-> NoDate]
            /\ \A o \in ComparisonTokens, d \in DateTokens :
                  arg = Join3(f, o, d) =>
                      AllGroups[1][1].Date = [isNil |-> FALSE, text |-> d]

\* parseDateFilter was applied to created_at:IS NULL:x and appended an
\* IsNull filter without a date.
C17_Witness ==
    /\ fn = "parseDateFilter"
    /\ arg = <<"c", "r", "e", "a", "t", "e", "d", "_", "a", "t", ":", "I", "S", " ", "N", "U", "L", "L", ":", "x">>
    /\ dateErr = ""
    /\ dateSet.CreatedAt = <<<<[ComparisonOperator |-> "IsNull",
                                Date |-> NoDate]>>>>

\* C18: the task wait command with waitForTask emits a progress notification
\* before polling starts and one for each fetch that observes a non-terminal
\* status: while the wait is running (and --quiet is not set) the first
\* message is the "Waiting for task" one and the number of messages is one
\* more than the number of such fetches.
NonTerminalSeen ==
    Cardinality({i \in 1..Len(hist) : hist[i] \in NonTerminal})
C18_ProgressNotifications ==
    (twPc = "waiting" /\ ~twIn.quiet) =>
        /\ Len(twOut) = 1 + NonTerminalSeen
        /\ twOut[1][1].text = "Waiting for task "

\* C19: the error returned on timeout names the task id and the configured
\* timeout, and the error returned for a failed task contains the message
\* the server sent, unchanged.
C19_ErrorsNameTheirCause ==
    twPc = "done" =>
        /\ result = "timeout" =>
              /\ \E i \in 1..Len(twErr) :
                    twErr[i] = [from |-> "taskID", text |-> twIn.taskID]
              /\ \E i \in 1..Len(twErr) : twErr[i].from = "timeout"
        /\ (result = "taskfailed" /\ ~task.Error.isNil
                /\ task.Error.Message # Nil) =>
              \E i \in 1..Len(twErr) : twErr[i].text = task.Error.Message

\* C20 as claimed: a delete command run without --force deletes only when
\* the answer is y or yes (after trimming and lower-casing); after any other
\* answer it has printed Aborted, returned success, sent no delete request
\* and changed neither the config nor the keychain.
Prompted == \E i \in 1..Len(delOut) : delOut[i].stream = "stdout"
SomethingDeleted ==
    \/ requests # <<>>
    \/ cfgDisk # delIn.config
    \/ keychain # KeysOf(delIn.config)
    \/ cfgMem \notin {NilConfig, delIn.config}
C21_CloneWaits ==
    (asyncPc = "done" /\ asyncIn.cmd = "clone" /\ asyncIn.wait
        /\ asyncResp.state = "ok" /\ asyncErr = <<>>) =>
        \E i \in 1..Len(apiLog) :
            /\ apiLog[i].fn = "waitForTask"
            /\ apiLog[i].result = "success"

WaitCalls == {i \in 1..Len(apiLog) : apiLog[i].fn = "waitForTask"}
Completed == Line("Batch processing completed")
Said(m) == \E i \in 1..Len(asyncOut) : asyncOut[i] = m

\* C24: thread add-messages --batch calls waitForTask exactly when --wait
\* is set and the batch response carries a task id, with a timeout of five
\* minutes and a poll interval of one second, and after the batch request;
\* "Batch processing completed" and the response are written only after
\* the wait returned success, and any other outcome of the wait is the
\* command's error.
C24_BatchWait ==
    (asyncIn.cmd = "add-messages" /\ asyncIn.batch) =>
        /\ asyncResp.state = "ok" =>
              (WaitCalls # {} <=> (asyncIn.wait /\ asyncResp.TaskID # Nil))
        /\ asyncResp.state # "ok" => WaitCalls = {}
        /\ \A i \in WaitCalls :
              /\ apiLog[i].timeout = 5 * 60
              /\ apiLog[i].pollInterval = 1
              /\ apiLog[i].taskID = asyncResp.TaskID
              /\ \E j \in 1..(i - 1) : apiLog[j].fn = "Thread.AddMessagesBatch"
              /\ (Said(Completed) \/ Said(Response)) =>
                    apiLog[i].result = "success"
              /\ apiLog[i].result \in {"timeout", "taskfailed", "transport"} =>
                    /\ asyncPc = "done"
                    /\ asyncErr = WaitOutcomeError(apiLog[i].result,
                                                   apiLog[i].taskID)
                    /\ asyncErr # <<>>
        /\ Said(Completed) => WaitCalls # {}

C24_Witness ==
    /\ asyncIn.cmd = "add-messages" /\ asyncIn.batch /\ asyncIn.wait
    /\ asyncPc = "done"
    /\ WaitCalls # {}
    /\ Said(Completed) /\ Said(Response)

Loads == {i \in 1..Len(calls) : calls[i].fn \in {"Load", "Reload"}}
SavedOk == {i \in 1..Len(calls) : calls[i].fn = "Save" /\ calls[i].err = <<>>}
Between(i, j, S) == \E k \in (i + 1)..(j - 1) : k \in S

\* C23: a Load that follows another Load or Reload, with no Reload and no
\* successful Save in between, does not read the disk and returns the same
\* result; the first Load reads the disk and so does every Reload; and a
\* Load that follows a successful Save of c returns c and no error, also
\* when an earlier Load had failed.
C23_CacheContract ==
    /\ \A j \in Loads :
          calls[j].read <=>
              (calls[j].fn = "Reload" \/ ~ \E i \in Loads : i < j)
    /\ \A i \in Loads, j \in Loads :
          (i < j /\ calls[j].fn = "Load" /\ ~Between(i, j + 1, SavedOk)) =>
              (calls[j].cfg = calls[i].cfg /\ calls[j].err = calls[i].err)
    /\ \A i \in SavedOk, j \in Loads :
          (i < j /\ ~Between(i, j, SavedOk)) =>
              (calls[j].cfg = calls[i].arg /\ calls[j].err = <<>>)

\* The profile the claim calls current: the one the profile setting names
\* when that is not empty, otherwise the one current-profile names; only a
\* profile of the config counts, and a missing file is an empty config.
C22_CurrentName ==
    IF viperIn.profile # "" THEN viperIn.profile
    ELSE IF diskFile.state = "ok" THEN diskFile.cfg.CurrentProfile
    ELSE ""
C22_InConfig(name) ==
    /\ diskFile.state = "ok"
    /\ \E i \in 1..Len(diskFile.cfg.Profiles) :
          diskFile.cfg.Profiles[i].Name = name
C22_ExpectedKey ==
    IF viperIn.apiKey # "" THEN viperIn.apiKey
    ELSE IF C22_InConfig(C22_CurrentName) /\ newOut.getOk
    THEN keychain[C22_CurrentName]
    ELSE ""

\* C22: the key client.New() uses is the api-key setting when that is not
\* empty, otherwise the keychain key of the current profile, otherwise the
\* empty string; and client.New() fails and creates no client exactly
\* when that key is empty.
C22_KeyResolution ==
    newOut.state # "none" =>
        /\ newOut.key = C22_ExpectedKey
        /\ newOut.state = "error" <=> C22_ExpectedKey = ""
        /\ newOut.state = "error" <=> newOut.err # <<>>
        /\ newOut.state = "client" <=> C22_ExpectedKey # ""

C22_Witness ==
    /\ newOut.state = "client"
    /\ viperIn.apiKey = ""
    /\ viperIn.profile = "prod"
    /\ diskFile.state = "ok"
    /\ diskFile.cfg.CurrentProfile = "dev"
    /\ newOut.key = keychain["prod"]
    /\ keychain["dev"] \notin {"", keychain["prod"]}

C22_WitnessNoKey ==
    /\ newOut.state = "error"
    /\ viperIn.profile = "prod"
    /\ ~C22_InConfig("prod")
    /\ keychain["prod"] # ""

SavedNames == {cfgDisk.Profiles[i].Name : i \in 1..Len(cfgDisk.Profiles)}

\* C25: in the saved configuration the profile names are pairwise
\* distinct, current-profile is empty exactly when there are no profiles
\* and otherwise names one of them; and a command that fails or is aborted
\* leaves the saved configuration as it was when the command started.
C25_ProfileInvariants ==
    /\ \A i, j \in 1..Len(cfgDisk.Profiles) :
          cfgDisk.Profiles[i].Name = cfgDisk.Profiles[j].Name => i = j
    /\ cfgDisk.CurrentProfile = "" <=> Len(cfgDisk.Profiles) = 0
    /\ Len(cfgDisk.Profiles) > 0 => cfgDisk.CurrentProfile \in SavedNames
    /\ (profPc = "aborted" \/ (profPc = "done" /\ profErr # <<>>)) =>
          cfgDisk = profBefore

C25_Witness ==
    /\ profPc = "done" /\ profErr = <<>> /\ profIn.kind = "delete"
    /\ profBefore.CurrentProfile = profIn.name
    /\ Len(profBefore.Profiles) = 2
    /\ Len(cfgDisk.Profiles) = 1

\* C26: every profile of the saved configuration has a non-empty key in
\* the keychain, at every point of every command; a step that saves a new
\* profile finds its key already stored, a step that removes a key finds
\* the profile already gone from the saved configuration; and a command
\* that warned about the keychain delete returns no error.
C26_KeyBeforeProfile ==
    /\ [](\A n \in SavedNames : keychain[n] # "")
    /\ [][\A n \in ProfileNames :
            /\ (HasProfile(cfgDisk', n) /\ ~HasProfile(cfgDisk, n)) =>
                  (keychain[n] # "" /\ keychain'[n] = keychain[n])
            /\ (keychain'[n] = "" /\ keychain[n] # "") =>
                  (~HasProfile(cfgDisk, n) /\ cfgDisk' = cfgDisk)]_vars
    /\ []((\E i \in 1..Len(profOut) : profOut[i] = KeychainWarning) =>
            (profPc = "done" /\ profErr = <<>>))

C26_Witness ==
    /\ profPc = "done" /\ profIn.kind = "delete" /\ profErr = <<>>
    /\ \E i \in 1..Len(profOut) : profOut[i] = KeychainWarning
    /\ keychain[profIn.name] # ""
    /\ ~HasProfile(cfgDisk, profIn.name)
    /\ Len(cfgDisk.Profiles) = 1

\* The number of filters before the first one that fails.
C27_Prefix(filters) ==
    LET bad == {i \in 1..Len(filters) : ~Succeeds(filters[i])}
    IN  IF bad = {} THEN Len(filters)
        ELSE (CHOOSE i \in bad : \A j \in bad : i <= j) - 1
C27_Added(filters, field) ==
    LET sel == SelectSeq(SubSeq(filters, 1, C27_Prefix(filters)),
                         LAMBDA f : Entry(f).field = field)
    IN  [i \in 1..Len(sel) |-> <<Entry(sel[i]).df>>]
C27_Expected(orig, filters) ==
    [orig EXCEPT !.CreatedAt = @ \o C27_Added(filters, "CreatedAt"),
                 !.ValidAt = @ \o C27_Added(filters, "ValidAt"),
                 !.InvalidAt = @ \o C27_Added(filters, "InvalidAt"),
                 !.ExpiredAt = @ \o C27_Added(filters, "ExpiredAt")]

\* C27: parseDateFilters returns an error exactly when some filter fails,
\* and leaves the set as the original plus one group of one filter for
\* each filter before the first failing one, in order, and nothing for the
\* failing filter and those after it; a parseDateFilter call that fails
\* leaves the set unchanged.
C27_PrefixOnly ==
    [][/\ fn' = "parseDateFilters" =>
            /\ dateErr' # "" <=> C27_Prefix(arg') < Len(arg')
            /\ dateSet' = C27_Expected(dateSet, arg')
       /\ (fn' = "parseDateFilter" /\ dateErr' # "") => dateSet' = dateSet]_vars

C27_Witness ==
    /\ fn = "parseDateFilters"
    /\ Len(arg) = 3
    /\ dateErr # ""
    /\ Succeeds(arg[1]) /\ ~Succeeds(arg[2]) /\ Succeeds(arg[3])
    /\ Len(dateSet.CreatedAt) + Len(dateSet.ValidAt) + Len(dateSet.InvalidAt)
          + Len(dateSet.ExpiredAt) = 1
    /\ dateSet.NodeLabels # <<>>

\* The places of the colons of a filter, and its text after the second one.
C28_Colons(str) == {i \in 1..Len(str) : str[i] = ":"}
C28_First(str) == CHOOSE i \in C28_Colons(str) : \A j \in C28_Colons(str) : i <= j
C28_Second(str) ==
    CHOOSE i \in C28_Colons(str) \ {C28_First(str)} :
        \A j \in C28_Colons(str) \ {C28_First(str)} : i <= j
C28_Name(str) == SubSeq(str, 1, C28_First(str) - 1)
C28_Token(str) == SubSeq(str, C28_First(str) + 1, C28_Second(str) - 1)
C28_Rest(str) == SubSeq(str, C28_Second(str) + 1, Len(str))

\* C28: in the three-part form the filter is split at its first two
\* colons only: whether it is accepted depends on the text between them
\* (and, for a date filter, on the field before them), never on further
\* colons; a string value and the date are the whole text after the second
\* colon, and any date text is accepted.
C28_RemainderVerbatim ==
    /\ (fn = "parsePropertyFilter" /\ arg \in ThreePartInputs) =>
          /\ pfOut.err = "" <=> C28_Token(arg) \in ComparisonTokens
          /\ pfOut.err = "" =>
                /\ pfOut.pf.PropertyName = C28_Name(arg)
                /\ C28_Rest(arg) \in StringTokens =>
                      pfOut.pf.PropertyValue
                          = [type |-> "string", text |-> C28_Rest(arg)]
    /\ (fn = "parseDateFilter" /\ arg \in ThreePartDateInputs) =>
          /\ dateErr = "" <=> (/\ C28_Token(arg) \in ComparisonTokens
                               /\ C28_Name(arg) \in KnownFields)
          /\ dateErr = "" =>
                /\ Len(AllGroups) = 1
                /\ AllGroups[1][1].Date
                      = [isNil |-> FALSE, text |-> C28_Rest(arg)]

C28_Witness ==
    /\ fn = "parseDateFilter"
    /\ arg = <<"c", "r", "e", "a", "t", "e", "d", "_", "a", "t", ":", ">", ":", "2", "0", "2", "4", "-", "0", "1", "-", "0", "1", "T", "1", "0", ":", "0", "0", ":", "0", "0", "Z">>
    /\ dateErr = ""
    /\ dateSet.CreatedAt
          = <<<<[ComparisonOperator |-> "GreaterThan",
                 Date |-> [isNil |-> FALSE,
                           text |-> <<"2", "0", "2", "4", "-", "0", "1", "-", "0", "1", "T", "1", "0", ":", "0", "0", ":", "0", "0", "Z">>]]>>>>

\* C29: no fetch starts before one poll interval has elapsed, two fetches
\* start at least one poll interval apart, a call whose timeout is shorter
\* than its poll interval makes no fetch and returns the timeout failure,
\* and a call makes at most timeout / pollInterval, rounded up, fetches.
C29_PollCadence ==
    /\ \A i \in 1..Len(fetchTimes) : fetchTimes[i] >= pollInterval
    /\ \A i \in 2..Len(fetchTimes) :
          fetchTimes[i] - fetchTimes[i - 1] >= pollInterval
    /\ timeout < pollInterval =>
          (fetches = 0 /\ (pc = "done" => result = "timeout"))
    /\ fetches * pollInterval < timeout + pollInterval

\* C30: every waitForTask call ends, whatever the fetches return, and it
\* ends with exactly one of success, task failed, timeout and transport
\* error; until then it has no outcome.
C30_Terminates ==
    /\ <>(pc = "done")
    /\ [](pc = "done" <=>
            result \in {"success", "taskfailed", "timeout", "transport"})
    /\ [][pc = "done" => result' = result]_vars

\* The task was fetched twice, never reached a terminal status, and the
\* call ended with the timeout.
C30_Witness ==
    /\ pc = "done"
    /\ result = "timeout"
    /\ Len(hist) = 2
    /\ \A i \in 1..Len(hist) : hist[i] \notin {"completed", "failed", "<error>"}
    /\ hist[1] # hist[2]

====
